---- MODULE Spec2Model ----
(***************************************************************************)
(* Verification model of the Ginkgo GPU kernels:                           *)
(*   - the synchronization-free scheduler (syncfree.hpp.inc) driving the   *)
(*     Cholesky factorize kernel (cholesky_kernels.hpp.inc),               *)
(*   - the sample-select kernels (par_ilut_select_kernels.hpp.inc),        *)
(*   - the warp-level Gauss-Jordan block inversion (warp_blas),            *)
(*   - the symbolic Cholesky count/factorize kernels,                      *)
(*   - the adaptive block-Jacobi generation kernel.                        *)
(***************************************************************************)
EXTENDS Integers, Sequences, FiniteSets, TLC

(***************************************************************************)
(* Bounds of the scheduler model                                           *)
(***************************************************************************)
\* num_rows of the factor (factorize(), cholesky_kernels.hpp.inc:318)
NumRows == 3
\* subwarp_size template parameter of syncfree_scheduler (lanes per warp)
SubwarpSize == 2
\* local_dependency_count = block_size / subwarp_size (warps per block)
LocalDeps == 2
\* largest number of thread blocks the device keeps resident at a time
MaxResident == 2

VARIABLES
    \* ---- syncfree scheduler / factorize kernel ----
    pattern,         \* pattern[r]: strictly-lower columns stored in row r
    block_counter,   \* *global.block_counter
    status,          \* global.status[0 .. num_rows-1]
    local_status,    \* local.status of every thread block (shared memory)
    block_offset,    \* local.block_offset of every thread block, -1 = unset
    bstate,          \* per launched block: "pending" | "ctor" | "run"
    zeroed,          \* per block: the constructor's zeroing loop has run
    pc,              \* per block and thread: position in kernel::factorize
    dep_idx,         \* per block and thread: lower_nz - row_begin
    resident_limit,  \* number of blocks the device runs concurrently
    calls,           \* factorize calls issued so far on tmp_storage
    \* ---- invert_block (warp-level Gauss-Jordan inversion) ----
    problem_size,    \* actual size of the block
    blk_input,       \* the block handed to invert_block, lane l holds row l
    blk,             \* registers of the group: row, perm, trans_perm,
                     \* pivoted and status of every lane
    blk_i,           \* loop counter i of invert_block; -1 = not running
    \* ---- symbolic_count / symbolic_factorize ----
    postorder,        \* forest.postorder
    postorder_parent, \* forest.postorder_parents
    postorder_cols,   \* per row: postorder_cols[row_begin .. lower_end)
    row_nnz,          \* output of symbolic_count, -1 = not yet written
    out_row_ptrs,     \* row pointers of the factor, <<>> = not yet built
    out_cols,         \* column indices of the factor, -1 = not written
    out_written,      \* per index of out_cols: the rows that wrote it, in order
    sym_reg,          \* per row: registers of the subwarp in symbolic_factorize
    \* ---- sample-select ----
    sel_call,         \* the array and the rank the selection was called with
    sel_values,       \* input of the current level (index 0 .. size - 1)
    sel_rank,         \* rank inside the input of the current level
    sel_tree,         \* tree_output of build_searchtree
    sel_oracles,      \* bucket index per element, -1 = not written
    sel_partial,      \* counter[block + bucket * gridDim], -1 = not written
    sel_totals,       \* totals per bucket, then prefix sum, then the bucket
    sel_sh_counter,   \* count_buckets: sh_counter per block, <<>> = not set
    sel_counted,      \* blocks of count_buckets that have finished
    sel_counter,      \* filter_bucket: shared counter per block, -1 = unset
    sel_filtered,     \* filter_bucket: indices whose loop iteration has run
    sel_out,          \* output of filter_bucket, -1 = not written
    sel_phase,        \* position of the driver
    sel_recursed,     \* the driver has started a second level
    sel_threshold,    \* *out of basecase_select, -1 = not written
    \* ---- adaptive_generate (block-Jacobi) ----
    jac_in,               \* arguments of the launch: num_blocks, the diagonal
                          \* blocks, the requested block_precisions, and the
                          \* contents of registers nobody initialized
    jac_reg,              \* per subwarp: position and registers
    jac_conditioning,     \* conditioning[block_id], <<>> = not written
    jac_block_precisions, \* block_precisions[block_id]
    jac_block_data,       \* per block: the rows stored, <<>> = not written
    \* ---- forest_from_factor / build_children_from_parents ----
    frs_in,          \* the factor: its lower entries and its rows
    frs_parents,     \* forest.parents, -1 = not written
    frs_col_idxs,    \* col_idx_array, <<>> = not written
    frs_children,    \* forest.children, <<>> = not written
    frs_child_ptrs,  \* forest.child_ptrs, <<>> = not written
    frs_phase,       \* position of the host code
    \* ---- stop::Combined ----
    crit_factories,   \* the criterion factories handed over
    crit_via,         \* "build": the builder; "combine": combine(vector)
    crit_pc,          \* position of the caller
    crit_i,           \* index of the next factory the constructor looks at
    crit_criteria,    \* criteria_: the criteria generated so far
    crit_result       \* "none", "ok" or "NotSupported"

schedVars == <<pattern, block_counter, status, local_status, block_offset,
               bstate, zeroed, pc, dep_idx, resident_limit, calls>>

invVars == <<problem_size, blk_input, blk, blk_i>>

symVars == <<postorder, postorder_parent, postorder_cols, row_nnz,
             out_row_ptrs, out_cols, out_written, sym_reg>>

selVars == <<sel_call, sel_values, sel_rank, sel_tree, sel_oracles,
            sel_partial, sel_totals, sel_sh_counter, sel_counted, sel_counter,
            sel_filtered, sel_out, sel_phase, sel_recursed, sel_threshold>>

jacVars == <<jac_in, jac_reg, jac_conditioning, jac_block_precisions,
            jac_block_data>>

forestVars == <<frs_in, frs_parents, frs_col_idxs, frs_children,
               frs_child_ptrs, frs_phase>>

critVars == <<crit_factories, crit_via, crit_pc, crit_i, crit_criteria,
             crit_result>>

nonSchedVars == <<invVars, symVars, selVars, jacVars, forestVars,
    critVars>>

nonInvVars == <<schedVars, symVars, selVars, jacVars, forestVars,
    critVars>>

nonSymVars == <<schedVars, invVars, selVars, jacVars, forestVars,
    critVars>>

nonSelVars == <<schedVars, invVars, symVars, jacVars, forestVars,
    critVars>>

nonJacVars == <<schedVars, invVars, symVars, selVars, forestVars,
    critVars>>

nonForestVars == <<schedVars, invVars, symVars, selVars, jacVars,
    critVars>>

nonCritVars == <<schedVars, invVars, symVars,
    selVars, jacVars, forestVars>>

vars == <<schedVars, invVars, symVars, selVars, jacVars, forestVars,
    critVars>>

(***************************************************************************)
(* Launch configuration of factorize() (cholesky_kernels.hpp.inc:318-329)  *)
(***************************************************************************)
block_size == LocalDeps * SubwarpSize

ceildiv(a, b) == (a + b - 1) \div b

num_blocks == ceildiv(NumRows, LocalDeps)

Blocks == 0 .. num_blocks - 1
Threads == 0 .. block_size - 1
Rows == 0 .. NumRows - 1

get_lane(t) == t % SubwarpSize
WarpOf(t) == t \div SubwarpSize
Warps == 0 .. LocalDeps - 1
ThreadsOfWarp(w) == {t \in Threads : WarpOf(t) = w}

\* every strictly lower triangular sparsity pattern
Patterns == {f \in [Rows -> SUBSET Rows] : \A r \in Rows : \A c \in f[r] : c < r}

(***************************************************************************)
(* syncfree_scheduler members                                              *)
(***************************************************************************)
\* a read-modify-write that loses the increment
atomic_add_new_lost(counter) == counter

\* atomic_add(global.block_counter, 1): the value left in the counter
atomic_add_new(counter) == counter + 1

\* atomic_add(global.block_counter, 1): the value returned (the old one)
atomic_add_old(counter) == counter

\* a block offset taken from the launch index instead of the counter
ClaimedOffset_static(p, counter) == p * block_size

\* local.block_offset = atomic_add(global.block_counter, 1) * block_size,
\* executed by thread 0 of block p
ClaimedOffset(p, counter) == atomic_add_old(counter) * block_size

\* block_id = local.block_offset / block_size
block_id(p) == block_offset[p] \div block_size

\* work_id = (local.block_offset + threadIdx.x) / subwarp_size
work_id(p, t) == (block_offset[p] + t) \div SubwarpSize

\* a work id that forgets the block offset
get_work_id_local(p, t) == t \div SubwarpSize

get_work_id(p, t) == work_id(p, t)

\* mark_ready(): sh_id = get_work_id() % (block_size / subwarp_size)
sh_id(p, t) == get_work_id(p, t) % LocalDeps

\* cols[row_begin + k]: the k-th lower column of a row (columns are sorted)
NthDep(r, k) == CHOOSE c \in pattern[r] :
                    Cardinality({d \in pattern[r] : d < c}) = k

NumDeps(r) == Cardinality(pattern[r])

dep_block(dependency) == dependency \div LocalDeps
dep_local(dependency) == dependency % LocalDeps

\* the flag wait() polls for a dependency: shared when the dependency lives
\* in the same block, global otherwise
WaitFlag(p, dependency) ==
    IF dep_block(dependency) = block_id(p)
    THEN local_status[p][dep_local(dependency)]
    ELSE status[dependency]

\* position of a thread that reaches the head of the elimination loop with
\* k lower entries already processed
LoopHead(r, k, t) ==
    IF k < NumDeps(r)
    THEN IF get_lane(t) = 0 THEN "spin" ELSE "wsync"
    ELSE "fin"

\* position of a thread after the scheduler constructor
AfterCtor(p, t) ==
    IF work_id(p, t) >= NumRows THEN "done" ELSE LoopHead(work_id(p, t), 0, t)

AllDone(p) == \A t \in Threads : pc[p][t] = "done"

Resident == {p \in Blocks : bstate[p] # "pending" /\ ~AllDone(p)}

(***************************************************************************)
(* Initial state: syncfree_storage constructor has zeroed status and the   *)
(* block counter; shared memory of the blocks is uninitialized.            *)
(***************************************************************************)
SchedStart ==
    /\ block_counter = 0
    /\ status = [r \in Rows |-> 0]
    /\ local_status \in {[p \in Blocks |-> [i \in Warps |-> g[p]]] :
                            g \in [Blocks -> {0, 1}]}
    /\ block_offset = [p \in Blocks |-> -1]
    /\ bstate = [p \in Blocks |-> "pending"]
    /\ zeroed = [p \in Blocks |-> FALSE]
    /\ pc = [p \in Blocks |-> [t \in Threads |-> "ctor"]]
    /\ dep_idx = [p \in Blocks |-> [t \in Threads |-> 0]]
    /\ resident_limit \in 1 .. MaxResident
    /\ calls = 1

SchedInit == pattern \in Patterns /\ SchedStart

\* the device makes a pending block resident when a slot is free
Launch(p) ==
    /\ bstate[p] = "pending"
    /\ Cardinality(Resident) < resident_limit
    /\ bstate' = [bstate EXCEPT ![p] = "ctor"]
    /\ UNCHANGED nonSchedVars
    /\ UNCHANGED <<pattern, block_counter, status, local_status, block_offset,
                   zeroed, pc, dep_idx, resident_limit, calls>>

\* constructor, thread 0: claim the block offset from the atomic counter
CtorClaim(p) ==
    /\ bstate[p] = "ctor"
    /\ block_offset[p] = -1
    /\ block_offset' = [block_offset EXCEPT
                           ![p] = ClaimedOffset(p, block_counter)]
    /\ block_counter' = atomic_add_new(block_counter)
    /\ UNCHANGED nonSchedVars
    /\ UNCHANGED <<pattern, status, local_status, bstate, zeroed, pc, dep_idx,
                   resident_limit, calls>>

\* a constructor that leaves local.status as it found it
CtorCleared_skip(old) == old

\* the contents of local.status after the constructor's clearing loop
CtorCleared(old) == [i \in Warps |-> 0]

\* constructor: the loop that clears local.status
CtorZero(p) ==
    /\ bstate[p] = "ctor"
    /\ ~zeroed[p]
    /\ zeroed' = [zeroed EXCEPT ![p] = TRUE]
    /\ local_status' = [local_status EXCEPT ![p] = CtorCleared(@)]
    /\ UNCHANGED nonSchedVars
    /\ UNCHANGED <<pattern, block_counter, status, block_offset, bstate, pc,
                   dep_idx, resident_limit, calls>>

\* constructor: __syncthreads(), then every thread derives its work id
CtorSync(p) ==
    /\ bstate[p] = "ctor"
    /\ block_offset[p] # -1
    /\ zeroed[p]
    /\ bstate' = [bstate EXCEPT ![p] = "run"]
    /\ pc' = [pc EXCEPT ![p] = [t \in Threads |-> AfterCtor(p, t)]]
    /\ UNCHANGED nonSchedVars
    /\ UNCHANGED <<pattern, block_counter, status, local_status, block_offset,
                   zeroed, dep_idx, resident_limit, calls>>

\* variant: lane 0 leaves the spin loop without looking at the flag
WaitObserved_always(p, dependency) == TRUE

\* wait(): whether lane 0 may leave the spin loop of a dependency
WaitObserved(p, dependency) == WaitFlag(p, dependency) # 0

\* wait(), lane 0: the acquire load observes the dependency as ready
WaitSpin(p, t) ==
    /\ pc[p][t] = "spin"
    /\ WaitObserved(p, NthDep(work_id(p, t), dep_idx[p][t]))
    /\ pc' = [pc EXCEPT ![p][t] = "wsync"]
    /\ UNCHANGED nonSchedVars
    /\ UNCHANGED <<pattern, block_counter, status, local_status, block_offset,
                   bstate, zeroed, dep_idx, resident_limit, calls>>

\* a sync() that does not hold back any lane
SyncLanes_none(w) == {}

\* the lanes a subwarp sync() waits for
SyncLanes(w) == ThreadsOfWarp(w)

\* wait(): the subwarp sync() that ends it
WaitSync(p, w) ==
    /\ \A t \in SyncLanes(w) : pc[p][t] = "wsync"
    /\ \E t \in ThreadsOfWarp(w) : pc[p][t] = "wsync"
    /\ pc' = [pc EXCEPT ![p] = [t \in Threads |->
                 IF t \in ThreadsOfWarp(w) /\ pc[p][t] = "wsync"
                 THEN "elim" ELSE @[t]]]
    /\ UNCHANGED nonSchedVars
    /\ UNCHANGED <<pattern, block_counter, status, local_status, block_offset,
                   bstate, zeroed, dep_idx, resident_limit, calls>>

\* factorize: read scale and the dependency's values, update the own row
Eliminate(p, t) ==
    /\ pc[p][t] = "elim"
    /\ dep_idx' = [dep_idx EXCEPT ![p][t] = @ + 1]
    /\ pc' = [pc EXCEPT ![p][t] =
                 LoopHead(work_id(p, t), dep_idx[p][t] + 1, t)]
    /\ UNCHANGED nonSchedVars
    /\ UNCHANGED <<pattern, block_counter, status, local_status, block_offset,
                   bstate, zeroed, resident_limit, calls>>

\* factorize: scale the upper entries, copy them to the transpose, store
\* the diagonal; then enter mark_ready()
Finish(p, t) ==
    /\ pc[p][t] = "fin"
    /\ pc' = [pc EXCEPT ![p][t] = "msync"]
    /\ UNCHANGED nonSchedVars
    /\ UNCHANGED <<pattern, block_counter, status, local_status, block_offset,
                   bstate, zeroed, dep_idx, resident_limit, calls>>

\* mark_ready(): the subwarp sync() that starts it
MarkSync(p, w) ==
    /\ \A t \in SyncLanes(w) : pc[p][t] = "msync"
    /\ \E t \in ThreadsOfWarp(w) : pc[p][t] = "msync"
    /\ pc' = [pc EXCEPT ![p] = [t \in Threads |->
                 IF t \in ThreadsOfWarp(w) /\ pc[p][t] = "msync"
                 THEN (IF get_lane(t) = 0 THEN "stl" ELSE "done")
                 ELSE @[t]]]
    /\ UNCHANGED nonSchedVars
    /\ UNCHANGED <<pattern, block_counter, status, local_status, block_offset,
                   bstate, zeroed, dep_idx, resident_limit, calls>>

\* mark_ready(), lane 0: store_release_shared(local.status + sh_id, 1)
StoreLocal(p, t) ==
    /\ pc[p][t] = "stl"
    /\ local_status' = [local_status EXCEPT ![p][sh_id(p, t)] = 1]
    /\ pc' = [pc EXCEPT ![p][t] = "stg"]
    /\ UNCHANGED nonSchedVars
    /\ UNCHANGED <<pattern, block_counter, status, block_offset, bstate,
                   zeroed, dep_idx, resident_limit, calls>>

\* mark_ready(), lane 0: store_release(global.status + get_work_id(), 1)
StoreGlobal(p, t) ==
    /\ pc[p][t] = "stg"
    /\ status' = [status EXCEPT ![get_work_id(p, t)] = 1]
    /\ pc' = [pc EXCEPT ![p][t] = "done"]
    /\ UNCHANGED nonSchedVars
    /\ UNCHANGED <<pattern, block_counter, local_status, block_offset, bstate,
                   zeroed, dep_idx, resident_limit, calls>>

SchedNext ==
    \/ \E p \in Blocks : Launch(p)
    \/ \E p \in Blocks : CtorClaim(p)
    \/ \E p \in Blocks : CtorZero(p)
    \/ \E p \in Blocks : CtorSync(p)
    \/ \E p \in Blocks, t \in Threads : WaitSpin(p, t)
    \/ \E p \in Blocks, w \in Warps : WaitSync(p, w)
    \/ \E p \in Blocks, t \in Threads : Eliminate(p, t)
    \/ \E p \in Blocks, t \in Threads : Finish(p, t)
    \/ \E p \in Blocks, w \in Warps : MarkSync(p, w)
    \/ \E p \in Blocks, t \in Threads : StoreLocal(p, t)
    \/ \E p \in Blocks, t \in Threads : StoreGlobal(p, t)

\* the state of the scheduler while another kernel is examined
SchedIdle ==
    /\ pattern = <<>>
    /\ block_counter = 0
    /\ status = <<>>
    /\ local_status = <<>>
    /\ block_offset = <<>>
    /\ bstate = <<>>
    /\ zeroed = <<>>
    /\ pc = <<>>
    /\ dep_idx = <<>>
    /\ resident_limit = 0
    /\ calls = 0

\* the registers of invert_block while another kernel is examined
InvIdle ==
    /\ problem_size = 0
    /\ blk_input = <<>>
    /\ blk = <<>>
    /\ blk_i = -1

\* the arrays of the symbolic factorization while another kernel is examined
SymIdle ==
    /\ postorder = <<>>
    /\ postorder_parent = <<>>
    /\ postorder_cols = <<>>
    /\ row_nnz = <<>>
    /\ out_row_ptrs = <<>>
    /\ out_cols = <<>>
    /\ out_written = <<>>
    /\ sym_reg = <<>>

\* the arrays of the selection while another kernel is examined
SelIdle ==
    /\ sel_call = <<>>
    /\ sel_values = <<>>
    /\ sel_rank = 0
    /\ sel_tree = <<>>
    /\ sel_oracles = <<>>
    /\ sel_partial = <<>>
    /\ sel_totals = <<>>
    /\ sel_sh_counter = <<>>
    /\ sel_counted = {}
    /\ sel_counter = <<>>
    /\ sel_filtered = {}
    /\ sel_out = <<>>
    /\ sel_phase = "idle"
    /\ sel_recursed = FALSE
    /\ sel_threshold = -1

\* the arrays of adaptive_generate while another kernel is examined
JacIdle ==
    /\ jac_in = <<>>
    /\ jac_reg = <<>>
    /\ jac_conditioning = <<>>
    /\ jac_block_precisions = <<>>
    /\ jac_block_data = <<>>

\* the arrays of the elimination forest while another kernel is examined
ForestIdle ==
    /\ frs_in = <<>>
    /\ frs_parents = <<>>
    /\ frs_col_idxs = <<>>
    /\ frs_children = <<>>
    /\ frs_child_ptrs = <<>>
    /\ frs_phase = "idle"

CritIdle ==
    /\ crit_factories = <<>>
    /\ crit_via = "idle"
    /\ crit_pc = "idle"
    /\ crit_i = 0
    /\ crit_criteria = <<>>
    /\ crit_result = "none"

Init == SchedInit /\ InvIdle /\ SymIdle /\ SelIdle /\ JacIdle /\ ForestIdle /\
    CritIdle

Next == SchedNext

Spec == Init /\ [][Next]_vars

(***************************************************************************)
(* Fairness: the device eventually starts a pending block when a slot is   *)
(* free, and every resident thread keeps executing.                        *)
(***************************************************************************)
ThreadStep(p, t) ==
    \/ WaitSpin(p, t)
    \/ Eliminate(p, t)
    \/ Finish(p, t)
    \/ StoreLocal(p, t)
    \/ StoreGlobal(p, t)

SchedFairness ==
    /\ \A p \in Blocks : WF_vars(Launch(p))
    /\ \A p \in Blocks : WF_vars(CtorClaim(p) \/ CtorZero(p) \/ CtorSync(p))
    /\ \A p \in Blocks, w \in Warps : WF_vars(WaitSync(p, w) \/ MarkSync(p, w))
    /\ \A p \in Blocks, t \in Threads : WF_vars(ThreadStep(p, t))

FairSpec == Init /\ [][Next]_vars /\ SchedFairness

(***************************************************************************)
(* Properties of the scheduler                                             *)
(***************************************************************************)
Claimed(p) == block_offset[p] # -1

\* the threads of the warp that owns row r
OwnerThreads(r) ==
    {x \in Blocks \X Threads : Claimed(x[1]) /\ work_id(x[1], x[2]) = r}

\* the dependency a thread is about to read in the elimination loop
CurrentDep(p, t) == NthDep(work_id(p, t), dep_idx[p][t])

\* the owner of row c has finished writing row c and has stored the flag
\* that block p polls for c
PublishedFor(p, c) ==
    /\ OwnerThreads(c) # {}
    /\ \A x \in OwnerThreads(c) :
          /\ bstate[x[1]] = "run"
          /\ IF x[1] = p
             THEN pc[x[1]][x[2]] \in {"stg", "done"}
             ELSE pc[x[1]][x[2]] = "done"

\* C1: a lane that is past wait(dep) and reads the scale value and the
\* values of row dep does so only after the warp owning dep has finished
\* writing its row and has executed the store of mark_ready that the reader
\* polls (the shared flag inside a block, the global flag across blocks).
C1_NoReadBeforeReady ==
    \A p \in Blocks, t \in Threads :
        pc[p][t] = "elim" =>
            /\ WaitFlag(p, CurrentDep(p, t)) = 1
            /\ PublishedFor(p, CurrentDep(p, t))

\* a lane reads a dependency of its own block while a lane of another
\* block reads a dependency across blocks
C1_Witness ==
    /\ \E p \in Blocks, t \in Threads :
          /\ pc[p][t] = "elim"
          /\ get_lane(t) # 0
          /\ dep_block(CurrentDep(p, t)) = block_id(p)
    /\ (num_blocks > 1 =>
          \E p \in Blocks, t \in Threads :
              /\ pc[p][t] = "elim"
              /\ get_lane(t) # 0
              /\ dep_block(CurrentDep(p, t)) # block_id(p))

AllFinished == \A p \in Blocks : bstate[p] = "run" /\ AllDone(p)

\* C2: a global status word changes only from 0 to 1 and only in the global
\* store of mark_ready executed by lane 0 of the warp whose work id is the
\* row; an initialized shared status word changes only from 0 to 1 and only
\* in the shared store of that warp; when the kernel has finished every row
\* below num_rows has its status word at 1.
C2_StatusSetOnce ==
    /\ [][/\ \A r \in Rows :
               status'[r] # status[r] =>
                   /\ status[r] = 0
                   /\ status'[r] = 1
                   /\ \E p \in Blocks, t \in Threads :
                         /\ get_lane(t) = 0
                         /\ work_id(p, t) = r
                         /\ pc[p][t] = "stg"
                         /\ pc'[p][t] = "done"
           /\ \A p \in Blocks, i \in Warps :
               (zeroed[p] /\ local_status'[p][i] # local_status[p][i]) =>
                   /\ local_status[p][i] = 0
                   /\ local_status'[p][i] = 1
                   /\ \E t \in Threads :
                         /\ get_lane(t) = 0
                         /\ work_id(p, t) = block_id(p) * LocalDeps + i
                         /\ work_id(p, t) < NumRows
                         /\ pc[p][t] = "stl"
                         /\ pc'[p][t] = "stg"]_vars
    /\ [](AllFinished => \A r \in Rows : status[r] = 1)

\* the kernel has finished and all flags of the rows are set
C2_Witness ==
    /\ AllFinished
    /\ \A r \in Rows : status[r] = 1
    /\ \A p \in Blocks, i \in Warps :
          local_status[p][i] = 1 <=> block_id(p) * LocalDeps + i < NumRows

\* C3: blocks that have claimed an offset have pairwise distinct block ids,
\* two threads share a work id only inside one warp, and once all blocks
\* have claimed the work ids are exactly 0 .. num_blocks*(warps per block)-1,
\* so every row has exactly one owning warp.
C3_DistinctWorkIds ==
    /\ \A p, q \in Blocks :
          (p # q /\ Claimed(p) /\ Claimed(q)) => block_id(p) # block_id(q)
    /\ \A p, q \in Blocks, t, u \in Threads :
          (Claimed(p) /\ Claimed(q) /\ work_id(p, t) = work_id(q, u)) =>
              (p = q /\ WarpOf(t) = WarpOf(u))
    /\ (\A p \in Blocks : Claimed(p)) =>
          /\ {work_id(p, t) : p \in Blocks, t \in Threads} =
                 0 .. num_blocks * LocalDeps - 1
          /\ \A r \in Rows :
                Cardinality({<<x[1], WarpOf(x[2])>> : x \in OwnerThreads(r)}) = 1

\* all blocks have claimed, the last launched index claimed first
C3_Witness ==
    /\ \A p \in Blocks : Claimed(p)
    /\ block_offset[num_blocks - 1] = 0
    /\ block_counter = num_blocks

\* C4: under fairness every row eventually publishes ready and all blocks
\* of the kernel finish.
C4_Terminates == <>(AllFinished /\ \A r \in Rows : status[r] = 1)

\* the kernel has finished with one resident block at a time, the blocks
\* started in reverse launch-index order, the last row depending on row 0
C4_Witness ==
    /\ AllFinished
    /\ resident_limit = 1
    /\ block_offset[num_blocks - 1] = 0
    /\ 0 \in pattern[NumRows - 1]

(***************************************************************************)
(* Exact arithmetic: a value is a fraction <<numerator, denominator>> in   *)
(* lowest terms with a positive denominator.                               *)
(***************************************************************************)
IAbs(a) == IF a < 0 THEN -a ELSE a

RECURSIVE GCD(_, _)
GCD(a, b) == IF b = 0 THEN a ELSE GCD(b, a % b)

Norm(n, d) ==
    LET g == GCD(IAbs(n), IAbs(d))
        sgn == IF d < 0 THEN -1 ELSE 1
    IN <<sgn * (n \div g), sgn * (d \div g)>>

Rat(n) == <<n, 1>>
zero == Rat(0)
one == Rat(1)

\* common factors are cancelled before the products are formed
RAdd(x, y) ==
    LET g == GCD(x[2], y[2])
    IN Norm(x[1] * (y[2] \div g) + y[1] * (x[2] \div g),
            (x[2] \div g) * y[2])
RNeg(x) == <<-x[1], x[2]>>
RMul(x, y) ==
    LET g1 == GCD(IAbs(x[1]), y[2])
        g2 == GCD(IAbs(y[1]), x[2])
    IN Norm((x[1] \div g1) * (y[1] \div g2),
            (x[2] \div g2) * (y[2] \div g1))
RDiv(x, y) ==
    IF y[1] = 0 THEN Norm(x[1] * y[2], 0)
    ELSE LET g1 == GCD(IAbs(x[1]), IAbs(y[1]))
             g2 == GCD(x[2], y[2])
         IN Norm((x[1] \div g1) * (y[2] \div g2),
                 (x[2] \div g2) * (y[1] \div g1))
RAbs(x) == <<IAbs(x[1]), x[2]>>
RLess(x, y) ==
    LET g == GCD(x[2], y[2])
    IN x[1] * (y[2] \div g) < y[1] * (x[2] \div g)
RMax(x, y) == IF RLess(x, y) THEN y ELSE x

(***************************************************************************)
(* invert_block and its helpers (warp_blas)                                *)
(***************************************************************************)
\* template parameter max_problem_size: registers per lane, lanes per group
max_problem_size == 3
\* largest magnitude of an entry of a block of size up to DenseSize
EntryMax == 1
\* blocks larger than DenseSize are drawn with entries 0 and 1 only
DenseSize == 2

Lanes == 0 .. max_problem_size - 1
Cols == 0 .. max_problem_size - 1

\* group.shfl(value, source_lane): every lane receives the source's value
shfl(values, source_lane) == values[source_lane]

\* choose_pivot(group, row[i], pivoted): the not yet pivoted lane with the
\* largest magnitude in column i, the lowest lane index winning ties
choose_pivot(column, pivoted) ==
    CHOOSE p \in Lanes :
        /\ ~pivoted[p]
        /\ \A q \in Lanes :
              ~pivoted[q] =>
                  \/ RLess(RAbs(column[q]), RAbs(column[p]))
                  \/ (RAbs(column[q]) = RAbs(column[p]) /\ p <= q)

\* a zero pivot that goes unreported
ZeroPivotStatus_keep(old) == old

\* the status a lane leaves apply_gauss_jordan_transform with on a zero pivot
ZeroPivotStatus(old) == FALSE

\* a zero pivot after which the transform still clears the rows
ZeroPivotRows_cleared(row) == [l \in Lanes |-> [i \in Cols |-> zero]]

\* the rows after a zero pivot: the transform returns before it writes
ZeroPivotRows(row) == row

\* apply_gauss_jordan_transform: the registers of all lanes after the
\* transform with row key_row and column key_col
apply_gauss_jordan_transform(key_row, key_col, st) ==
    LET pivot == shfl([l \in Lanes |-> st.row[l][key_col]], key_row)
        key_col_elem(l) ==
            IF l = key_row
            THEN RDiv(one, pivot)
            ELSE RDiv(RNeg(st.row[l][key_col]), pivot)
        key_row_elem(i) == shfl([l \in Lanes |-> st.row[l][i]], key_row)
        NewRow(l) ==
            [i \in Cols |->
                IF i = key_col
                THEN key_col_elem(l)
                ELSE RAdd(IF l = key_row THEN zero ELSE st.row[l][i],
                          RMul(key_col_elem(l), key_row_elem(i)))]
    IN IF pivot = zero
       THEN [st EXCEPT !.status = [l \in Lanes |-> ZeroPivotStatus(@[l])],
                       !.row = ZeroPivotRows(@)]
       ELSE [st EXCEPT !.row = [l \in Lanes |-> NewRow(l)]]

\* a pivot lane that is not marked
PivotedMark_unset(old) == old

\* pivoted = true, executed by the pivot lane
PivotedMark(old) == TRUE

\* an iteration that records the two permutation vectors the wrong way round
InvertIteration_swapped(i, st) ==
    LET piv == choose_pivot([l \in Lanes |-> st.row[l][i]], st.pivoted)
        marked == [st EXCEPT !.perm[i] = piv,
                             !.pivoted[piv] = PivotedMark(@),
                             !.trans_perm[piv] = i]
    IN apply_gauss_jordan_transform(piv, i, marked)

\* one iteration (i < problem_size) of the loop of invert_block
InvertIteration(i, st) ==
    LET piv == choose_pivot([l \in Lanes |-> st.row[l][i]], st.pivoted)
        marked == [st EXCEPT !.perm[piv] = i,
                             !.pivoted[piv] = PivotedMark(@),
                             !.trans_perm[i] = piv]
    IN apply_gauss_jordan_transform(piv, i, marked)

\* variant: lanes after problem_size may become pivots
InvertEntry_unguarded(n, row, perm, trans_perm) ==
    [row |-> row, perm |-> perm, trans_perm |-> trans_perm,
     pivoted |-> [l \in Lanes |-> FALSE],
     status |-> [l \in Lanes |-> TRUE]]

\* the registers at the entry of invert_block's loop
InvertEntry(n, row, perm, trans_perm) ==
    [row |-> row, perm |-> perm, trans_perm |-> trans_perm,
     pivoted |-> [l \in Lanes |-> l >= n],
     status |-> [l \in Lanes |-> TRUE]]

RECURSIVE InvertFrom(_, _, _)
InvertFrom(i, n, st) ==
    IF i >= max_problem_size THEN st
    ELSE InvertFrom(i + 1, n, IF i < n THEN InvertIteration(i, st) ELSE st)

\* invert_block: the registers when it returns; the value returned to lane
\* l is .status[l]
invert_block(n, row, perm, trans_perm) ==
    InvertFrom(0, n, InvertEntry(n, row, perm, trans_perm))

\* copy_matrix<and_transpose>: destination[row_perm * stride + idx], as a
\* matrix indexed [row_perm][idx]
copy_matrix_and_transpose(n, source_row, row_perm, col_perm) ==
    [a \in 0 .. n - 1 |-> [b \in 0 .. n - 1 |->
        LET l == CHOOSE k \in 0 .. n - 1 : row_perm[k] = a
            i == CHOOSE k \in 0 .. n - 1 : shfl(col_perm, k) = b
        IN source_row[l][i]]]

\* the blocks invert_block is run on
Entries(n) == IF n <= DenseSize THEN -EntryMax .. EntryMax ELSE 0 .. 1

InputBlocks(n) ==
    [(0 .. n - 1) -> [(0 .. n - 1) -> Entries(n)]] \cup
    (IF n = 3
     THEN {[r \in 0 .. 2 |-> [c \in 0 .. 2 |-> IF r = c THEN r + 2 ELSE 0]]}
     ELSE {})

\* contents of registers that the caller never initialized
GarbageValues == {0, 1}

\* the rows in the lanes' registers: the block, garbage elsewhere
LoadBlock(n, M, g) ==
    [l \in Lanes |-> [c \in Cols |->
        IF l < n /\ c < n THEN Rat(M[l][c]) ELSE Rat(g)]]

InvInit ==
    /\ problem_size \in 1 .. max_problem_size
    /\ blk_input \in InputBlocks(problem_size)
    /\ \E g \in (IF problem_size < max_problem_size
                 THEN GarbageValues ELSE {0}) :
          blk = InvertEntry(problem_size,
                            LoadBlock(problem_size, blk_input, g),
                            [l \in Lanes |-> l], [l \in Lanes |-> l])
    /\ blk_i = 0

\* one pass through the body of the loop of invert_block
InvertStep ==
    /\ blk_i >= 0
    /\ blk_i < max_problem_size
    /\ blk' = IF blk_i < problem_size THEN InvertIteration(blk_i, blk) ELSE blk
    /\ blk_i' = blk_i + 1
    /\ UNCHANGED <<problem_size, blk_input>>
    /\ UNCHANGED nonInvVars

InvNext == InvertStep

InvSpecInit == InvInit /\ SchedIdle /\ SymIdle /\ SelIdle /\ JacIdle /\
    ForestIdle /\ CritIdle

InvSpec == InvSpecInit /\ [][InvNext]_vars

InvReturned == blk_i = max_problem_size

(***************************************************************************)
(* Reference notions for invert_block                                      *)
(***************************************************************************)
\* determinant of an integer matrix given as rows over 0 .. n-1, by
\* expansion along the first row
RECURSIVE Det(_, _, _)
Det(M, rows, cols) ==
    IF rows = {} THEN 1
    ELSE LET r == CHOOSE x \in rows : \A y \in rows : x <= y
             Sign(c) == IF Cardinality({d \in cols : d < c}) % 2 = 0
                        THEN 1 ELSE -1
             Term(c) == Sign(c) * M[r][c] * Det(M, rows \ {r}, cols \ {c})
             RECURSIVE Sum(_)
             Sum(S) == IF S = {} THEN 0
                       ELSE LET c == CHOOSE x \in S : TRUE
                            IN Term(c) + Sum(S \ {c})
         IN Sum(cols)

Singular(n, M) == Det(M, 0 .. n - 1, 0 .. n - 1) = 0

RECURSIVE RSum(_, _)
RSum(f, S) == IF S = {} THEN zero
              ELSE LET c == CHOOSE x \in S : TRUE
                   IN RAdd(f[c], RSum(f, S \ {c}))

\* product of two n x n matrices of fractions
MatMul(n, A, B) ==
    [a \in 0 .. n - 1 |-> [b \in 0 .. n - 1 |->
        RSum([k \in 0 .. n - 1 |-> RMul(A[a][k], B[k][b])], 0 .. n - 1)]]

Identity(n) == [a \in 0 .. n - 1 |-> [b \in 0 .. n - 1 |->
                   IF a = b THEN one ELSE zero]]

RatMatrix(n, M) == [a \in 0 .. n - 1 |-> [b \in 0 .. n - 1 |-> Rat(M[a][b])]]

(***************************************************************************)
(* Properties of invert_block                                              *)
(***************************************************************************)
\* the pivot element of the iteration invert_block is about to execute is 0
ZeroPivotNow ==
    /\ blk_i >= 0
    /\ blk_i < problem_size
    /\ LET piv == choose_pivot([l \in Lanes |-> blk.row[l][blk_i]],
                               blk.pivoted)
       IN blk.row[piv][blk_i] = zero

\* C6: an iteration of invert_block whose pivot element is exactly zero
\* leaves status false on every lane, status never becomes true again, and
\* invert_block returns false on every lane for every singular block.
C6_ZeroPivotFails ==
    /\ [][ZeroPivotNow => \A l \in Lanes : ~blk'.status[l]]_vars
    /\ [][\A l \in Lanes : ~blk.status[l] => ~blk'.status[l]]_vars
    /\ [](InvReturned /\ Singular(problem_size, blk_input) =>
             \A l \in Lanes : ~blk.status[l])

\* invert_block has returned false for a block with a zero row, having met
\* the zero pivot before its last iteration
C6_Witness ==
    /\ InvReturned
    /\ problem_size >= 2
    /\ \A c \in 0 .. problem_size - 1 : blk_input[0][c] = 0
    /\ blk_input[1][0] # 0
    /\ \A l \in Lanes : ~blk.status[l]

\* the rows invert_block left in the first problem_size lanes
ResultRows == [l \in 0 .. problem_size - 1 |->
                  [c \in 0 .. problem_size - 1 |-> blk.row[l][c]]]

\* P X P for the result X and the permutation matrix P of the returned
\* trans_perm (row a of P has its 1 in column trans_perm[a]): entry (a,b) of
\* the product is X[trans_perm[a]][m] for the m with trans_perm[m] = b
UnpermutedResult ==
    [a \in 0 .. problem_size - 1 |-> [b \in 0 .. problem_size - 1 |->
        ResultRows[blk.trans_perm[a]]
                  [CHOOSE m \in 0 .. problem_size - 1 :
                       blk.trans_perm[m] = b]]]

\* C7: for every non-singular block invert_block returns true and P X P is
\* the exact inverse of the block (both products with the block are the
\* identity); copy_matrix with perm as row permutation and trans_perm as
\* column permutation writes that inverse; diag(2,3,4) gives
\* diag(1/2,1/3,1/4).
C7_PermutedInverse ==
    (InvReturned /\ ~Singular(problem_size, blk_input)) =>
        /\ \A l \in Lanes : blk.status[l]
        /\ MatMul(problem_size, UnpermutedResult,
                  RatMatrix(problem_size, blk_input)) = Identity(problem_size)
        /\ MatMul(problem_size, RatMatrix(problem_size, blk_input),
                  UnpermutedResult) = Identity(problem_size)
        /\ copy_matrix_and_transpose(problem_size, ResultRows, blk.perm,
                                     blk.trans_perm) = UnpermutedResult
        /\ (problem_size = 3 /\
            blk_input = [r \in 0 .. 2 |-> [c \in 0 .. 2 |->
                            IF r = c THEN r + 2 ELSE 0]]) =>
               ResultRows = [r \in 0 .. 2 |-> [c \in 0 .. 2 |->
                                IF r = c THEN <<1, r + 2>> ELSE zero]]

\* invert_block has returned true for a non-singular block of the largest
\* size whose pivot order is a permutation that is not its own inverse
C7_Witness ==
    /\ InvReturned
    /\ problem_size = max_problem_size
    /\ ~Singular(problem_size, blk_input)
    /\ \A l \in Lanes : blk.status[l]
    /\ blk.perm # blk.trans_perm

(***************************************************************************)
(* symbolic_count and symbolic_factorize (cholesky_kernels.hpp.inc)        *)
(***************************************************************************)
\* num_rows of the matrix whose factor pattern is predicted
NumSymRows == 4
\* subwarp_size template parameter of the two symbolic kernels
SymSubwarp == 2

\* subwarps that are inside symbolic_factorize at the same time
SymResident == 1

SymRows == 0 .. NumSymRows - 1
SymLanes == 0 .. SymSubwarp - 1

\* one more slot than the largest possible factor has entries
OutCapacity == (NumSymRows * (NumSymRows + 1)) \div 2 + 1

\* inv_postorder[row]
inv_postorder(row) == CHOOSE i \in SymRows : postorder[i] = row

\* the elements of a set of numbers in increasing order
SortedSeq(S) ==
    [k \in 1 .. Cardinality(S) |->
        CHOOSE x \in S : Cardinality({y \in S : y < x}) = k - 1]

\* lower_end - row_begin
LowerCount(row) == Len(postorder_cols[row])

\* postorder_cols[row_begin + k]
PostorderCol(row, k) == postorder_cols[row][k + 1]

\* next_node of the entry at row_begin + k
NextNode(row, k) ==
    IF k < LowerCount(row) - 1
    THEN PostorderCol(row, k + 1)
    ELSE inv_postorder(row)

\* symbolic_count: iterations of the while loop started at node
RECURSIVE ChainCount(_, _)
ChainCount(node, next_node) ==
    IF node < next_node
    THEN 1 + ChainCount(postorder_parent[node], next_node)
    ELSE 0

\* symbolic_count: count of one lane over its entries nz = row_begin + lane,
\* row_begin + lane + subwarp_size, ...
RECURSIVE LaneCount(_, _)
LaneCount(row, k) ==
    IF k < LowerCount(row)
    THEN ChainCount(PostorderCol(row, k), NextNode(row, k)) +
         LaneCount(row, k + SymSubwarp)
    ELSE 0

RECURSIVE SumLanes(_, _)
SumLanes(row, lane) ==
    IF lane >= SymSubwarp THEN 0
    ELSE LaneCount(row, lane) + SumLanes(row, lane + 1)

\* the count symbolic_count adds for the diagonal entry
DiagonalCount == 1

\* symbolic_count: the value stored to row_nnz[row]
CountRow(row) == SumLanes(row, 0) + DiagonalCount

\* exclusive prefix sum of row_nnz, built by the container of the factor
RECURSIVE PrefixSum(_, _)
PrefixSum(counts, i) ==
    IF i = 0 THEN 0 ELSE PrefixSum(counts, i - 1) + counts[i - 1]

\* variant: the prefix mask includes the lane's own bit
PrefixPopcnt_inclusive(pred, lane) ==
    Cardinality({l \in SymLanes : l <= lane /\ pred[l]})

\* popcnt(mask & prefix_mask): lanes below lane whose predicate holds
PrefixPopcnt(pred, lane) == Cardinality({l \in SymLanes : l < lane /\ pred[l]})

\* popcnt(mask)
Popcnt(pred) == Cardinality({l \in SymLanes : pred[l]})

\* registers of a subwarp that has not entered symbolic_factorize
SymRegIdle ==
    [phase |-> "wait", base |-> 0, out_base |-> 0,
     node |-> [l \in SymLanes |-> 0],
     next_node |-> [l \in SymLanes |-> 0],
     pred |-> [l \in SymLanes |-> FALSE]]

\* symbolic_factorize: the registers after the loads at the head of the for
\* loop over base
LoadBase(row, base, out_base) ==
    LET d == inv_postorder(row)
        node == [l \in SymLanes |->
                    IF base + l < LowerCount(row)
                    THEN PostorderCol(row, base + l) ELSE d]
        next == [l \in SymLanes |-> NextNode(row, base + l)]
    IN IF base < LowerCount(row)
       THEN [phase |-> "round", base |-> base, out_base |-> out_base,
             node |-> node, next_node |-> next,
             pred |-> [l \in SymLanes |-> node[l] < next[l]]]
       ELSE [SymRegIdle EXCEPT !.phase = "diag", !.base = base,
                               !.out_base = out_base]

\* rows 0 .. n - 1 of the filled pattern of the matrix A given by its strictly
\* lower rows (all indices in postorder numbering): a row is the union of the
\* paths of the elimination forest that start at its entries in A and stay
\* below the row
RECURSIVE FilledRows(_, _)
FilledRows(A, n) ==
    IF n = 0 THEN [m \in {} |-> {}]
    ELSE LET F == FilledRows(A, n - 1)
             i == n - 1
             Above(k) == {m \in k + 1 .. i - 1 : k \in F[m]}
             RECURSIVE Path(_)
             Path(k) == IF Above(k) = {} THEN {k}
                        ELSE {k} \cup Path(CHOOSE m \in Above(k) :
                                             \A x \in Above(k) : m <= x)
             row == UNION {Path(k) : k \in A[i]}
         IN [m \in 0 .. i |-> IF m < i THEN F[m] ELSE row]

\* parents[j] = min(i | i > j and l_ij =/= 0), num_rows for a root
ForestParents(A) ==
    LET L == FilledRows(A, NumSymRows)
    IN [j \in SymRows |->
           LET Above == {i \in SymRows : j < i /\ j \in L[i]}
           IN IF Above = {} THEN NumSymRows
              ELSE CHOOSE i \in Above : \A x \in Above : i <= x]

\* a postorder numbering: the subtree of every node is a contiguous range of
\* indices that ends at the node
IsPostordered(parents) ==
    \A j \in SymRows :
        parents[j] < NumSymRows =>
            \A k \in j + 1 .. parents[j] - 1 : parents[k] <= parents[j]

\* the postorders of a forest: postorder[i] is the row with postorder index
\* i, and the parent of a row is a row with a larger number
SymPostorders(parents) ==
    {p \in [SymRows -> SymRows] :
        /\ \A i, j \in SymRows : p[i] = p[j] => i = j
        /\ \A j \in SymRows :
              parents[j] < NumSymRows => p[j] < p[parents[j]]}

\* build_postorder_cols: the lower entries of a row in the order of their
\* columns, each replaced by its postorder index (S is the set of these
\* postorder indices)
build_postorder_cols(S) ==
    LET cols == SortedSeq({postorder[c] : c \in S})
    IN [k \in 1 .. Len(cols) |-> inv_postorder(cols[k])]

\* the inputs of the symbolic kernels: a matrix A (strictly lower rows, in
\* postorder numbering), its elimination forest and one of its postorders;
\* postorder_cols as build_postorder_cols left it, or sorted by postorder
\* index
SymInit ==
    /\ \E P \in SUBSET {x \in SymRows \X SymRows : x[2] < x[1]} :
          LET A == [i \in SymRows |-> {c \in SymRows : <<i, c>> \in P}]
              parents == ForestParents(A)
          IN /\ IsPostordered(parents)
             /\ postorder \in SymPostorders(parents)
             /\ postorder_parent = parents
             /\ postorder_cols \in
                   {[row \in SymRows |->
                        build_postorder_cols(A[inv_postorder(row)])],
                    [row \in SymRows |-> SortedSeq(A[inv_postorder(row)])]}
    /\ row_nnz = [row \in SymRows |-> -1]
    /\ out_row_ptrs = <<>>
    /\ out_cols = [i \in 0 .. OutCapacity - 1 |-> -1]
    /\ out_written = [i \in 0 .. OutCapacity - 1 |-> <<>>]
    /\ sym_reg = [row \in SymRows |-> SymRegIdle]

\* kernel symbolic_count, the subwarp of one row
SymbolicCount(row) ==
    /\ row_nnz[row] = -1
    /\ row_nnz' = [row_nnz EXCEPT ![row] = CountRow(row)]
    /\ UNCHANGED <<postorder, postorder_parent, postorder_cols, out_row_ptrs,
                   out_cols, out_written, sym_reg>>
    /\ UNCHANGED nonSymVars

\* between the kernels: the row pointers of the factor are the exclusive
\* prefix sum of row_nnz
BuildRowPtrs ==
    /\ out_row_ptrs = <<>>
    /\ \A row \in SymRows : row_nnz[row] # -1
    /\ out_row_ptrs' = [i \in 0 .. NumSymRows |-> PrefixSum(row_nnz, i)]
    /\ UNCHANGED <<postorder, postorder_parent, postorder_cols, row_nnz,
                   out_cols, out_written, sym_reg>>
    /\ UNCHANGED nonSymVars

\* the subwarps that have started symbolic_factorize and not finished
SymActive == {row \in SymRows : sym_reg[row].phase \in {"round", "diag"}}

\* kernel symbolic_factorize: a subwarp starts on its row
FactorizeEnter(row) ==
    /\ out_row_ptrs # <<>>
    /\ sym_reg[row].phase = "wait"
    /\ Cardinality(SymActive) < SymResident
    /\ sym_reg' = [sym_reg EXCEPT ![row] = LoadBase(row, 0, out_row_ptrs[row])]
    /\ UNCHANGED <<postorder, postorder_parent, postorder_cols, row_nnz,
                   out_row_ptrs, out_cols, out_written>>
    /\ UNCHANGED nonSymVars

\* out_cols and the record of writes after a set of stores {<<index, value>>}
\* by the subwarp of a row (stores past the capacity land in the last slot)
Slot(i) == IF i < OutCapacity - 1 THEN i ELSE OutCapacity - 1

StoreCols(cols, stores) ==
    [i \in DOMAIN cols |->
        IF \E st \in stores : Slot(st[1]) = i
        THEN (CHOOSE st \in stores : Slot(st[1]) = i)[2]
        ELSE cols[i]]

RECURSIVE Repeat(_, _)
Repeat(x, n) == IF n = 0 THEN <<>> ELSE <<x>> \o Repeat(x, n - 1)

RecordStores(written, row, stores) ==
    [i \in DOMAIN written |->
        written[i] \o
        Repeat(row, Cardinality({st \in stores : Slot(st[1]) = i}))]

\* symbolic_factorize: one pass through the body of the while (mask) loop
FactorizeRound(row) ==
    LET r == sym_reg[row]
        stores == {<<l, r.out_base + PrefixPopcnt(r.pred, l),
                     postorder[r.node[l]]>> : l \in {k \in SymLanes : r.pred[k]}}
        node2 == [l \in SymLanes |->
                     IF r.pred[l] THEN postorder_parent[r.node[l]]
                     ELSE r.node[l]]
    IN /\ r.phase = "round"
       /\ Popcnt(r.pred) > 0
       /\ out_cols' = StoreCols(out_cols, {<<st[2], st[3]>> : st \in stores})
       /\ out_written' = RecordStores(out_written, row,
                                      {<<st[2], st[1]>> : st \in stores})
       /\ sym_reg' = [sym_reg EXCEPT ![row] =
              [r EXCEPT !.node = node2,
                        !.pred = [l \in SymLanes |->
                                     r.pred[l] /\ node2[l] < r.next_node[l]],
                        !.out_base = r.out_base + Popcnt(r.pred)]]
       /\ UNCHANGED <<postorder, postorder_parent, postorder_cols, row_nnz,
                      out_row_ptrs>>
       /\ UNCHANGED nonSymVars

\* symbolic_factorize: the while loop ends, the for loop advances base
FactorizeNextBase(row) ==
    /\ sym_reg[row].phase = "round"
    /\ Popcnt(sym_reg[row].pred) = 0
    /\ sym_reg' = [sym_reg EXCEPT ![row] =
           LoadBase(row, sym_reg[row].base + SymSubwarp, sym_reg[row].out_base)]
    /\ UNCHANGED <<postorder, postorder_parent, postorder_cols, row_nnz,
                   out_row_ptrs, out_cols, out_written>>
    /\ UNCHANGED nonSymVars

\* symbolic_factorize: lane 0 adds the diagonal entry
FactorizeDiag(row) ==
    /\ sym_reg[row].phase = "diag"
    /\ out_cols' = StoreCols(out_cols, {<<sym_reg[row].out_base, row>>})
    /\ out_written' = RecordStores(out_written, row,
                                   {<<sym_reg[row].out_base, 0>>})
    /\ sym_reg' = [sym_reg EXCEPT ![row].phase = "done"]
    /\ UNCHANGED <<postorder, postorder_parent, postorder_cols, row_nnz,
                   out_row_ptrs>>
    /\ UNCHANGED nonSymVars

SymNext ==
    \/ \E row \in SymRows : SymbolicCount(row)
    \/ BuildRowPtrs
    \/ \E row \in SymRows : FactorizeEnter(row)
    \/ \E row \in SymRows : FactorizeRound(row)
    \/ \E row \in SymRows : FactorizeNextBase(row)
    \/ \E row \in SymRows : FactorizeDiag(row)

SymSpecInit == SymInit /\ SchedIdle /\ InvIdle /\ SelIdle /\ JacIdle /\
    ForestIdle /\ CritIdle

SymSpec == SymSpecInit /\ [][SymNext]_vars

\* the indices of out_cols that belong to a row
RowRange(row) == out_row_ptrs[row] .. out_row_ptrs[row + 1] - 1

\* the subwarp of a row has returned from symbolic_factorize
SymDone(row) == sym_reg[row].phase = "done"

\* C8: with out_row_ptrs the exclusive prefix sum of the counts of
\* symbolic_count, symbolic_factorize never writes an index of out_cols twice
\* and the subwarp of a row only writes inside the range of its row; when it
\* has returned it has written each of the row_nnz[row] indices of the range
\* exactly once, and the last entry of the range is the diagonal column row.
C8_WritesMatchCounts ==
    out_row_ptrs # <<>> =>
        /\ \A i \in DOMAIN out_written :
              /\ Len(out_written[i]) <= 1
              /\ \A k \in 1 .. Len(out_written[i]) :
                    i \in RowRange(out_written[i][k])
        /\ \A row \in SymRows :
              SymDone(row) =>
                  /\ Cardinality(RowRange(row)) = row_nnz[row]
                  /\ \A i \in RowRange(row) : out_written[i] = <<row>>
                  /\ out_cols[out_row_ptrs[row + 1] - 1] = row

\* every row is complete; one row needed two passes of the loop over base
\* and one row has fill-in
C8_Witness ==
    /\ \A row \in SymRows : SymDone(row)
    /\ \E row \in SymRows : LowerCount(row) > SymSubwarp
    /\ \E row \in SymRows : row_nnz[row] > LowerCount(row) + 1

(***************************************************************************)
(* Sample-select (par_ilut_select_kernels.hpp.inc)                         *)
(***************************************************************************)
\* sampleselect_searchtree_height
TreeHeight == 2
\* sampleselect_oversampling
Oversampling == 2
\* items_per_thread of count_buckets and filter_bucket
ItemsPerThread == 1
\* basecase_block_size: threads of basecase_select
BasecaseBlock == 1
\* basecase_local_size: elements per thread of basecase_select
BasecaseLocal == 2
\* largest size of an input array of the selection
MaxSize == 3
\* largest magnitude of an entry of an input array
MaxMag == 2

RECURSIVE Pow2(_)
Pow2(n) == IF n = 0 THEN 1 ELSE 2 * Pow2(n - 1)

searchtree_width == Pow2(TreeHeight)
searchtree_inner_size == searchtree_width - 1
searchtree_size == searchtree_width + searchtree_inner_size
sample_size == searchtree_width * Oversampling
basecase_size == BasecaseBlock * BasecaseLocal

\* thread block size of count_buckets and filter_bucket; the kernels must be
\* launched with default_block_size >= searchtree_width
default_block_size == searchtree_width

\* config::warp_size in block_prefix_sum: the block is one warp
warp_size == default_block_size

abs(x) == IF x < 0 THEN -x ELSE x

\* device_numeric_limits<ValueType>::inf: larger than every magnitude
inf == (IF MaxMag > 5 THEN MaxMag ELSE 5) + 1

\* array of the scenario of the selection test
ScenarioArray == [i \in 0 .. 4 |-> <<5, 1, 4, 2, 3>>[i + 1]]

\* an array with repeated magnitudes, long enough for a bucket above the
\* base case size
RepeatedArray ==
    [i \in 0 .. 11 |-> <<0, 0, -1, -1, 2, 2, 3, 3, 4, 4, 5, 5>>[i + 1]]

SelArrays ==
    UNION {[0 .. n - 1 -> -MaxMag .. MaxMag] : n \in 1 .. MaxSize}
        \cup {ScenarioArray, RepeatedArray}

Size(a) == Cardinality(DOMAIN a)

\* bitonic_sort: the elements of an array (index 0 ..) in ascending order
RECURSIVE bitonic_sort(_)
bitonic_sort(a) ==
    IF Size(a) = 0 THEN a
    ELSE LET n == Size(a)
             m == CHOOSE i \in DOMAIN a : \A j \in DOMAIN a : a[i] <= a[j]
             rest == [i \in 0 .. n - 2 |-> IF i < m THEN a[i] ELSE a[i + 1]]
             tail == bitonic_sort(rest)
         IN [i \in 0 .. n - 1 |-> IF i = 0 THEN a[m] ELSE tail[i - 1]]

\* ffs: 1-based index of the lowest set bit
RECURSIVE ffs(_)
ffs(x) == IF x % 2 = 1 THEN 1 ELSE 1 + ffs(x \div 2)

\* build_searchtree: the sorted samples of the input
SortedSamples(input) ==
    LET size == Size(input)
    IN bitonic_sort([lidx \in 0 .. sample_size - 1 |->
                        abs(input[(lidx * size) \div sample_size])])

\* build_searchtree: samples[0] of thread idx after the sort
Splitter(input, idx) == SortedSamples(input)[idx * Oversampling]

\* inner nodes laid out in the order of the threads
InnerPos_in_order(idx) == idx - 1

\* build_searchtree: idx_in_level + previous_levels of thread idx > 0
InnerPos(idx) ==
    (idx \div Pow2(ffs(idx))) + Pow2(TreeHeight - ffs(idx)) - 1

\* build_searchtree: tree_output (-1 where no thread writes)
build_searchtree(input) ==
    [p \in 0 .. searchtree_size - 1 |->
        IF p >= searchtree_inner_size
        THEN Splitter(input, p - searchtree_inner_size)
        ELSE IF \E idx \in 1 .. searchtree_width - 1 : InnerPos(idx) = p
             THEN Splitter(input, CHOOSE idx \in 1 .. searchtree_width - 1 :
                                     InnerPos(idx) = p)
             ELSE -1]

\* variant: an element equal to a splitter goes to the left
RECURSIVE TreeWalk_le(_, _, _, _)
TreeWalk_le(tree, el, tree_idx, level) ==
    IF level = TreeHeight THEN tree_idx
    ELSE LET cmp == IF el <= tree[tree_idx] THEN 0 ELSE 1
         IN TreeWalk_le(tree, el, 2 * tree_idx + 1 + cmp, level + 1)

\* count_buckets: the walk through the search tree from node tree_idx
RECURSIVE TreeWalk(_, _, _, _)
TreeWalk(tree, el, tree_idx, level) ==
    IF level = TreeHeight THEN tree_idx
    ELSE LET cmp == IF el < tree[tree_idx] THEN 0 ELSE 1
         IN TreeWalk(tree, el, 2 * tree_idx + 1 + cmp, level + 1)

\* count_buckets: the bucket of an element
Bucket(tree, el) == TreeWalk(tree, el, 0, 0) - searchtree_inner_size

\* grid of count_buckets and filter_bucket for an input of a size
SelGrid(size) == ceildiv(ceildiv(size, ItemsPerThread), default_block_size)

\* the block whose index range holds element i
BlockOf(i) == i \div (default_block_size * ItemsPerThread)

\* the elements of the index range of a block
BlockItems(b, size) == {i \in 0 .. size - 1 : BlockOf(i) = b}

SelSize == Size(sel_values)
SelBlocks == 0 .. SelGrid(SelSize) - 1
SelBuckets == 0 .. searchtree_width - 1

\* scratch arrays at the start of a level
SelScratch(size) ==
    /\ sel_tree' = [p \in 0 .. searchtree_size - 1 |-> -1]
    /\ sel_oracles' = [i \in 0 .. size - 1 |-> -1]
    /\ sel_partial' = [k \in 0 .. searchtree_width * SelGrid(size) - 1 |-> -1]
    /\ sel_totals' = [k \in 0 .. searchtree_width |-> -1]
    /\ sel_sh_counter' = [b \in 0 .. SelGrid(size) - 1 |-> <<>>]
    /\ sel_counted' = {}
    /\ sel_counter' = [b \in 0 .. SelGrid(size) - 1 |-> -1]
    /\ sel_filtered' = {}
    /\ sel_out' = [i \in 0 .. size - 1 |-> -1]

SelInit ==
    /\ sel_values \in SelArrays
    /\ sel_rank \in 0 .. Size(sel_values) - 1
    /\ sel_call = [values |-> sel_values, rank |-> sel_rank]
    /\ sel_tree = [p \in 0 .. searchtree_size - 1 |-> -1]
    /\ sel_oracles = [i \in DOMAIN sel_values |-> -1]
    /\ sel_partial =
          [k \in 0 .. searchtree_width * SelGrid(Size(sel_values)) - 1 |-> -1]
    /\ sel_totals = [k \in 0 .. searchtree_width |-> -1]
    /\ sel_sh_counter = [b \in 0 .. SelGrid(Size(sel_values)) - 1 |-> <<>>]
    /\ sel_counted = {}
    /\ sel_counter = [b \in 0 .. SelGrid(Size(sel_values)) - 1 |-> -1]
    /\ sel_filtered = {}
    /\ sel_out = [i \in DOMAIN sel_values |-> -1]
    /\ sel_phase = "tree"
    /\ sel_recursed = FALSE
    /\ sel_threshold = -1

\* kernel build_searchtree (one thread block)
SelBuildTree ==
    /\ sel_phase = "tree"
    /\ sel_tree' = build_searchtree(sel_values)
    /\ sel_phase' = "count"
    /\ UNCHANGED <<sel_call, sel_values, sel_rank, sel_oracles, sel_partial,
                   sel_totals, sel_sh_counter,
                   sel_counted, sel_counter, sel_filtered, sel_out,
                   sel_recursed, sel_threshold>>
    /\ UNCHANGED nonSelVars

\* variant: an increment of a shared counter that is lost
sh_counter_add_lost(counter) == counter

\* atomic_add<IndexType>(sh_counter + bucket, 1): the value left in the counter
sh_counter_add(counter) == counter + 1

\* kernel count_buckets, a thread block: the initialisation of sh_counter
\* up to the first sync
CountClear(b) ==
    /\ sel_phase = "count"
    /\ b \in SelBlocks \ sel_counted
    /\ sel_sh_counter[b] = <<>>
    /\ sel_sh_counter' = [sel_sh_counter EXCEPT ![b] = [k \in SelBuckets |-> 0]]
    /\ UNCHANGED <<sel_call, sel_values, sel_rank, sel_tree, sel_oracles,
                   sel_partial, sel_totals, sel_counted, sel_counter,
                   sel_filtered, sel_out, sel_phase, sel_recursed,
                   sel_threshold>>
    /\ UNCHANGED nonSelVars

\* kernel count_buckets: one iteration of the loop of the thread that owns
\* element i (a thread takes its elements in increasing order)
CountStep(i) ==
    LET b == BlockOf(i)
        bucket == Bucket(sel_tree, abs(sel_values[i]))
    IN /\ sel_phase = "count"
       /\ i \in DOMAIN sel_values
       /\ sel_oracles[i] = -1
       /\ b \notin sel_counted
       /\ sel_sh_counter[b] # <<>>
       /\ \A j \in BlockItems(b, SelSize) :
             (j < i /\ (i - j) % default_block_size = 0) => sel_oracles[j] # -1
       /\ sel_sh_counter' =
             [sel_sh_counter EXCEPT
                 ![b][bucket] = sh_counter_add(sel_sh_counter[b][bucket])]
       /\ sel_oracles' = [sel_oracles EXCEPT ![i] = bucket]
       /\ UNCHANGED <<sel_call, sel_values, sel_rank, sel_tree, sel_partial,
                      sel_totals, sel_counted, sel_counter, sel_filtered,
                      sel_out, sel_phase, sel_recursed, sel_threshold>>
       /\ UNCHANGED nonSelVars

\* kernel count_buckets, a thread block after the second sync: the block
\* writes its counts back
CountBuckets(b) ==
    LET grid == SelGrid(SelSize)
    IN /\ sel_phase = "count"
       /\ b \in SelBlocks \ sel_counted
       /\ sel_sh_counter[b] # <<>>
       /\ \A i \in BlockItems(b, SelSize) : sel_oracles[i] # -1
       /\ sel_partial' = [k \in DOMAIN sel_partial |->
                             IF k % grid = b THEN sel_sh_counter[b][k \div grid]
                             ELSE sel_partial[k]]
       /\ sel_counted' = sel_counted \cup {b}
       /\ UNCHANGED <<sel_call, sel_values, sel_rank, sel_tree, sel_oracles,
                      sel_totals, sel_sh_counter, sel_counter, sel_filtered,
                      sel_out, sel_phase, sel_recursed, sel_threshold>>
       /\ UNCHANGED nonSelVars

RECURSIVE SumOver(_, _)
SumOver(f, S) ==
    IF S = {} THEN 0
    ELSE LET x == CHOOSE y \in S : TRUE IN f[x] + SumOver(f, S \ {x})

\* a function as a table: the same function, its values computed once
Table(f) == f @@ <<>>

\* subwarp_prefix_sum over the warp, hypercube steps from `step` on: lane l
\* adds the total of lane l xor step, and adds it to its prefix when its bit
\* `step` is set
RECURSIVE hypercube(_, _, _)
hypercube(step, prefix_sum, total_sum) ==
    IF step >= warp_size THEN [prefix_sum |-> prefix_sum, total_sum |-> total_sum]
    ELSE LET bit(l) == (l \div step) % 2 = 1
             neighbor(l) == total_sum[IF bit(l) THEN l - step ELSE l + step]
         IN hypercube(2 * step,
                      Table([l \in 0 .. warp_size - 1 |->
                          prefix_sum[l] + (IF bit(l) THEN neighbor(l) ELSE 0)]),
                      Table([l \in 0 .. warp_size - 1 |->
                          total_sum[l] + neighbor(l)]))

\* subwarp_prefix_sum<inclusive>: element, prefix_sum and total_sum by lane
subwarp_prefix_sum(inclusive, element) ==
    hypercube(1,
              Table([l \in 0 .. warp_size - 1 |->
                        IF inclusive THEN element[l] ELSE 0]),
              element)

\* variant: the stored entry leaves out the total of the earlier steps
StoredPrefix_step(warp_prefix, total) == warp_prefix

\* block_prefix_sum, first loop: the entry a lane stores
StoredPrefix(warp_prefix, total) == warp_prefix + total

\* block_prefix_sum, first loop of a warp, one step given the scan of the
\* step: the counters and the total of each lane
WarpStep(local_counters, nblocks, warp_idx, step, total, scan) ==
    LET work_per_warp == ceildiv(nblocks, warp_size)
        base_idx == warp_idx * work_per_warp * warp_size
    IN [counters |->
           Table([i \in 0 .. nblocks - 1 |->
               IF /\ step * warp_size + base_idx <= i
                  /\ i < (step + 1) * warp_size + base_idx
               THEN LET l == i - step * warp_size - base_idx
                    IN StoredPrefix(scan.prefix_sum[l], total[l])
               ELSE local_counters[i]]),
        total |-> Table([l \in 0 .. warp_size - 1 |->
                            total[l] + scan.total_sum[l]])]

\* block_prefix_sum, first loop of a warp from `step` on
RECURSIVE WarpScan(_, _, _, _, _)
WarpScan(local_counters, nblocks, warp_idx, step, total) ==
    LET work_per_warp == ceildiv(nblocks, warp_size)
        base_idx == warp_idx * work_per_warp * warp_size
        idx(l) == l + step * warp_size + base_idx
        val == Table([l \in 0 .. warp_size - 1 |->
                   IF idx(l) < nblocks THEN local_counters[idx(l)] ELSE 0])
    IN IF step >= work_per_warp
       THEN [counters |-> local_counters, total |-> total]
       ELSE LET stepped == WarpStep(local_counters, nblocks, warp_idx, step,
                                    total, subwarp_prefix_sum(FALSE, val))
            IN WarpScan(stepped.counters, nblocks, warp_idx, step + 1,
                        stepped.total)

\* block_prefix_sum, the first loop of the warps 0 .. warp_idx: the warps
\* work on disjoint entries
RECURSIVE WarpScans(_, _, _)
WarpScans(local_counters, nblocks, warp_idx) ==
    IF warp_idx < 0 THEN [counters |-> local_counters, warp_sums |-> <<>>]
    ELSE LET before == WarpScans(local_counters, nblocks, warp_idx - 1)
             mine == WarpScan(before.counters, nblocks, warp_idx, 0,
                              [l \in 0 .. warp_size - 1 |-> 0])
         IN [counters |-> mine.counters,
             warp_sums |-> Append(before.warp_sums, mine.total[0])]

\* block_prefix_sum, the second scan and the last loop given the first loop
BlockScan(first, nblocks) ==
    LET num_warps == default_block_size \div warp_size
        work_per_warp == ceildiv(nblocks, warp_size)
        warp_of(idx) == idx \div (work_per_warp * warp_size)
        \* warp 0 scans the totals of the warps
        val == Table([l \in 0 .. warp_size - 1 |->
                   IF l < num_warps THEN first.warp_sums[l + 1] ELSE 0])
        scan == subwarp_prefix_sum(FALSE, val)
        warp_sums == Table([w \in 0 .. num_warps - 1 |->
                         IF w < warp_size THEN scan.prefix_sum[w]
                         ELSE first.warp_sums[w + 1]])
    IN [counters |->
           Table([idx \in 0 .. nblocks - 1 |->
               first.counters[idx] + warp_sums[warp_of(idx)]]),
        total |-> scan.total_sum[0]]

\* block_prefix_sum, thread block of one bucket: the new local_counters and
\* the total of the bucket
block_prefix_sum(local_counters, nblocks) ==
    BlockScan(WarpScans(Table(local_counters), nblocks,
                        default_block_size \div warp_size - 1),
              nblocks)

\* kernel block_prefix_sum, one thread block per bucket
BlockPrefixSum ==
    LET grid == SelGrid(SelSize)
        scanned(k) == block_prefix_sum(
                          [idx \in 0 .. grid - 1 |-> sel_partial[idx + grid * k]],
                          grid)
    IN /\ sel_phase = "count"
       /\ sel_counted = SelBlocks
       /\ \E res \in {Table([k \in SelBuckets |-> scanned(k)])} :
             /\ sel_partial' = [k \in DOMAIN sel_partial |->
                                   res[k \div grid].counters[k % grid]]
             /\ sel_totals' = [k \in DOMAIN sel_totals |->
                                  IF k < searchtree_width THEN res[k].total
                                  ELSE sel_totals[k]]
       /\ sel_phase' = "totals"
       /\ UNCHANGED <<sel_call, sel_values, sel_rank, sel_tree, sel_oracles,
                      sel_sh_counter,
                   sel_counted, sel_counter, sel_filtered, sel_out,
                      sel_recursed, sel_threshold>>
       /\ UNCHANGED nonSelVars

\* the driver turns the bucket_count + 1 totals into their exclusive prefix sum
TotalsPrefixSum ==
    /\ sel_phase = "totals"
    /\ sel_totals' = [k \in DOMAIN sel_totals |->
                         SumOver(sel_totals, {j \in DOMAIN sel_totals : j < k})]
    /\ sel_phase' = "find"
    /\ UNCHANGED <<sel_call, sel_values, sel_rank, sel_tree, sel_oracles,
                   sel_partial, sel_sh_counter,
                   sel_counted, sel_counter, sel_filtered,
                   sel_out, sel_recursed, sel_threshold>>
    /\ UNCHANGED nonSelVars

\* variant: the predicate of find_bucket accepts equality
find_bucket_pred_ge(prefix_sum, rank, i) == prefix_sum[i + 1] >= rank

\* find_bucket: the predicate handed to group_wide_search
find_bucket_pred(prefix_sum, rank, i) == prefix_sum[i + 1] > rank

\* group_wide_search(begin, length, group, pred): the first index of the range
\* for which the predicate holds, the end of the range if there is none
group_wide_search(begin, length, pred) ==
    IF \E i \in begin .. begin + length - 1 : pred[i]
    THEN CHOOSE i \in begin .. begin + length - 1 :
             pred[i] /\ \A j \in begin .. i - 1 : ~pred[j]
    ELSE begin + length

\* variant: thread 0 loads base and size after the stores before them
find_bucket_store_in_place(prefix_sum, idx) ==
    LET stored0 == [prefix_sum EXCEPT ![0] = idx]
        base == stored0[idx]
        stored1 == [stored0 EXCEPT ![1] = base]
        size == stored1[idx + 1] - base
    IN [stored1 EXCEPT ![2] = size]

\* find_bucket, thread 0: base and size are loaded, then the three slots
\* are written
find_bucket_store(prefix_sum, idx) ==
    LET base == prefix_sum[idx]
        size == prefix_sum[idx + 1] - base
    IN [prefix_sum EXCEPT ![0] = idx, ![1] = base, ![2] = size]

\* kernel find_bucket
FindBucket ==
    LET pred == [i \in 0 .. searchtree_width - 1 |->
                    find_bucket_pred(sel_totals, sel_rank, i)]
        idx == group_wide_search(0, searchtree_width, pred)
    IN /\ sel_phase = "find"
       /\ sel_totals' = find_bucket_store(sel_totals, idx)
       /\ sel_phase' = "filter"
       /\ UNCHANGED <<sel_call, sel_values, sel_rank, sel_tree, sel_oracles,
                      sel_partial, sel_sh_counter,
                   sel_counted, sel_counter, sel_filtered,
                      sel_out, sel_recursed, sel_threshold>>
       /\ UNCHANGED nonSelVars

\* sampleselect_bucket read back by the driver
SelBucket == [idx |-> sel_totals[0], begin |-> sel_totals[1],
              size |-> sel_totals[2]]

\* kernel filter_bucket: thread 0 of a block loads the block offset
FilterLoad(b) ==
    /\ sel_phase = "filter"
    /\ b \in SelBlocks
    /\ sel_counter[b] = -1
    /\ sel_counter' = [sel_counter EXCEPT
                          ![b] = sel_partial[b + SelBucket.idx * SelGrid(SelSize)]]
    /\ UNCHANGED <<sel_call, sel_values, sel_rank, sel_tree, sel_oracles,
                   sel_partial, sel_totals, sel_sh_counter,
                   sel_counted, sel_filtered, sel_out,
                   sel_phase, sel_recursed, sel_threshold>>
    /\ UNCHANGED nonSelVars

\* variant: the counter advances for every element
filter_counter_add_always(counter, found) == counter + 1

\* atomic_add<IndexType>(&counter, found): the value left in the counter
filter_counter_add(counter, found) == IF found THEN counter + 1 ELSE counter

\* kernel filter_bucket: one iteration of the loop of the thread that owns
\* element i (a thread takes its elements in increasing order)
FilterStep(i) ==
    LET b == BlockOf(i)
        found == SelBucket.idx = sel_oracles[i]
        ofs == sel_counter[b]
    IN /\ sel_phase = "filter"
       /\ i \in DOMAIN sel_values \ sel_filtered
       /\ sel_counter[b] # -1
       /\ \A j \in BlockItems(b, SelSize) :
             (j < i /\ (i - j) % default_block_size = 0) => j \in sel_filtered
       /\ sel_counter' = [sel_counter EXCEPT
                             ![b] = filter_counter_add(ofs, found)]
       /\ sel_out' = [k \in DOMAIN sel_out |->
                         IF found /\ k = ofs THEN abs(sel_values[i])
                         ELSE sel_out[k]]
       /\ sel_filtered' = sel_filtered \cup {i}
       /\ UNCHANGED <<sel_call, sel_values, sel_rank, sel_tree, sel_oracles,
                      sel_partial, sel_totals, sel_sh_counter,
                   sel_counted, sel_phase,
                      sel_recursed, sel_threshold>>
       /\ UNCHANGED nonSelVars

\* the driver after filter_bucket: the bucket becomes the input and the rank
\* is taken relative to the bucket; a bucket above the base case size starts
\* the next level
SelRecurse ==
    LET bucket == SelBucket
    IN /\ sel_phase = "filter"
       /\ sel_filtered = DOMAIN sel_values
       /\ sel_rank' = sel_rank - bucket.begin
       /\ sel_values' = [i \in 0 .. bucket.size - 1 |-> sel_out[i]]
       /\ IF bucket.size > basecase_size
          THEN /\ sel_phase' = "tree"
               /\ sel_recursed' = TRUE
          ELSE /\ sel_phase' = "base"
               /\ UNCHANGED sel_recursed
       /\ SelScratch(bucket.size)
       /\ UNCHANGED <<sel_call, sel_threshold>>
       /\ UNCHANGED nonSelVars

\* variant: the elements past the input are padded with zero
BaseLocal_zero(input, size) ==
    [idx \in 0 .. basecase_size - 1 |-> IF idx < size THEN input[idx] ELSE 0]

\* basecase_select: the local arrays of the threads after the load, element
\* idx = threadIdx.x + i * basecase_block_size; past the input the sentinel
BaseLocal(input, size) ==
    [idx \in 0 .. basecase_size - 1 |-> IF idx < size THEN input[idx] ELSE inf]

\* basecase_select: the threads that write *out
BaseWriters(rank) ==
    {t \in 0 .. BasecaseBlock - 1 : t = rank \div BasecaseLocal}

\* variant: the threads read the rank from the unsorted elements
basecase_select_unsorted(input, size, rank, out) ==
    LET local == BaseLocal(input, size)
        writer == rank \div BasecaseLocal
    IN IF writer < BasecaseBlock
       THEN local[writer * BasecaseLocal + (rank % BasecaseLocal)]
       ELSE out

\* basecase_select: the value written to *out (none if no thread has the rank)
basecase_select(input, size, rank, out) ==
    LET sorted == bitonic_sort(BaseLocal(input, size))
    IN IF BaseWriters(rank) = {} THEN out
       ELSE LET t == CHOOSE w \in BaseWriters(rank) : TRUE
            IN sorted[t * BasecaseLocal + (rank % BasecaseLocal)]

\* kernel basecase_select
SelBasecase ==
    /\ sel_phase = "base"
    /\ sel_threshold' =
          basecase_select(sel_values, SelSize, sel_rank, sel_threshold)
    /\ sel_phase' = "done"
    /\ UNCHANGED <<sel_call, sel_values, sel_rank, sel_tree, sel_oracles,
                   sel_partial, sel_totals, sel_sh_counter,
                   sel_counted, sel_counter,
                   sel_filtered, sel_out, sel_recursed>>
    /\ UNCHANGED nonSelVars

SelNext ==
    \/ SelBuildTree
    \/ \E b \in SelBlocks : CountClear(b)
    \/ \E i \in DOMAIN sel_values : CountStep(i)
    \/ \E b \in SelBlocks : CountBuckets(b)
    \/ BlockPrefixSum
    \/ TotalsPrefixSum
    \/ FindBucket
    \/ \E b \in SelBlocks : FilterLoad(b)
    \/ \E i \in DOMAIN sel_values : FilterStep(i)
    \/ SelRecurse
    \/ SelBasecase

SelSpecInit == SelInit /\ SchedIdle /\ InvIdle /\ SymIdle /\ JacIdle /\
    ForestIdle /\ CritIdle

SelSpec == SelSpecInit /\ [][SelNext]_vars

\* the r-th smallest magnitude of an array, by counting
KthMagnitude(a, r) ==
    CHOOSE v \in {abs(a[i]) : i \in DOMAIN a} :
        /\ Cardinality({i \in DOMAIN a : abs(a[i]) < v}) <= r
        /\ r < Cardinality({i \in DOMAIN a : abs(a[i]) <= v})

JacSubwarps == 2
\* largest entry of a diagonal block
JacEntryMax == 1

\* float_traits<float>::eps = 2^-23
WorkingEpsExp == 23
\* float_traits<half>::eps = 2^-10
ReducedEpsExp == 10
\* bits of the significand of half, the hidden bit included
HalfBits == 11
\* the margin 1e-3 of the feasibility test, as 1 / MarginInv
MarginInv == 1000

Subwarps == 0 .. JacSubwarps - 1

\* precision_reduction values: "p0n0", "p1n0", "p2n0"
\* (p<preserving>n<nonpreserving>) and autodetect
autodetect == "autodetect"

\* bits of a precision_reduction_descriptor mask; "rest" stands for the bits
\* of a uint32 that belong to no storage format modelled here
DescriptorBits == {"p1n0", "p2n0", "rest"}

\* ~uint32{}
AllOnes == DescriptorBits

\* precision_reduction_descriptor::singleton
singleton(prec) == IF prec \in {"p1n0", "p2n0"} THEN {prec} ELSE {}

\* get_optimal_storage_reduction: the format with the fewest bits in the mask
get_optimal_storage_reduction(mask) ==
    IF "p2n0" \in mask THEN "p2n0"
    ELSE IF "p1n0" \in mask THEN "p1n0"
    ELSE "p0n0"

\* x * 2^-e as a fraction
TimesEps(x, e) == RMul(x, <<1, Pow2(e)>>)

\* get_supported_storage_reductions: the roundoff of a format with
\* float_traits<>::eps = 2^-e is within the accuracy asked for
Accurate(accuracy, block_cond, e) == RLess(TimesEps(block_cond, e), accuracy)

\* get_supported_storage_reductions with the results of the two
\* verificators, which the call passes along with accuracy and block_cond;
\* a format is supported when its roundoff is accurate and the verificators
\* down to it succeeded
get_supported_storage_reductions(accuracy, block_cond, verified1, verified2) ==
    (IF Accurate(accuracy, block_cond, ReducedEpsExp) /\ verified1
     THEN {"p1n0"} ELSE {}) \cup
    (IF Accurate(accuracy, block_cond, ReducedEpsExp) /\ verified1 /\ verified2
     THEN {"p2n0"} ELSE {})

\* smallest k >= 0 with a * 2^k >= lower
RECURSIVE ScaleUp(_, _, _)
ScaleUp(a, lower, k) ==
    IF a >= lower THEN k ELSE ScaleUp(2 * a, lower, k + 1)

\* smallest j >= 0 with a < upper * 2^j
RECURSIVE ScaleDown(_, _, _)
ScaleDown(a, upper, j) ==
    IF a < upper THEN j ELSE ScaleDown(a, 2 * upper, j + 1)

\* static_cast<ValueType>(static_cast<ReducedType>(x)) for a reduced type
\* with a significand of p bits: round to nearest, ties to even
RoundToBits(x, p) ==
    IF x[1] = 0 THEN x
    ELSE LET a == IAbs(x[1])
             d == x[2]
             j == ScaleDown(a, Pow2(p) * d, 0)
             k == IF j > 0 THEN 0 ELSE ScaleUp(a, Pow2(p - 1) * d, 0)
             num == a * Pow2(k)
             den == d * Pow2(j)
             q == num \div den
             r == num % den
             m == IF 2 * r > den THEN q + 1
                  ELSE IF 2 * r < den THEN q
                  ELSE IF q % 2 = 0 THEN q ELSE q + 1
             sgn == IF x[1] < 0 THEN -1 ELSE 1
         IN Norm(sgn * m * Pow2(j), Pow2(k))

\* the value a row is stored as in the format of a precision
StoreAs(prec, x) == IF prec = "p0n0" THEN x ELSE RoundToBits(x, HalfBits)

\* reduce(group, sum, max)
RECURSIVE RMaxOver(_, _)
RMaxOver(f, S) ==
    IF S = {} THEN zero
    ELSE LET c == CHOOSE x \in S : TRUE
         IN RMax(f[c], RMaxOver(f, S \ {c}))

\* compute_infinity_norm: lane l supplies row l
compute_infinity_norm(num_rows, num_cols, row) ==
    RMaxOver([l \in Lanes |->
                 IF l < num_rows
                 THEN RSum([i \in Cols |->
                               IF i < num_cols THEN RAbs(row[l][i]) ELSE zero],
                           Cols)
                 ELSE zero],
             Lanes)

\* floor(x * k) for a fraction x >= 0
ScaledFloor(x, k) == (x[1] \div x[2]) * k + ((x[1] % x[2]) * k) \div x[2]

\* x * 2^-e < 1e-3
BelowMargin(x, e) == ScaledFloor(x, MarginInv) < Pow2(e)

\* variant: the test without the safety margin
FeasibilityTest_no_margin(succeeded, block_cond) ==
    succeeded /\ ~RLess(block_cond, one)

\* validate_precision_reduction_feasibility: the value returned
FeasibilityTest(succeeded, block_cond) ==
    /\ succeeded
    /\ ~RLess(block_cond, one)
    /\ BelowMargin(block_cond, WorkingEpsExp)

\* validate_precision_reduction_feasibility for a reduced type with a
\* significand of p bits: the rows after the conversion
ReducedRows(bsize, row, p) ==
    [l \in Lanes |-> [i \in Cols |->
        IF l < bsize /\ i < bsize
        THEN RoundToBits(row[l][i], p) ELSE row[l][i]]]

\* the registers after the inversion inside the probe.  The registers
\* outside the block, which no later statement reads and on which the
\* block's result does not depend, are not followed through the inversion:
\* they are kept as they were at the call
ProbedRows(bsize, at_call, inverted) ==
    [l \in Lanes |-> [i \in Cols |->
        IF l < bsize /\ i < bsize THEN inverted[l][i] ELSE at_call[l][i]]]

\* a probe that returns without restoring the rows
RestoreRows_skip(bsize, work, row) == row

\* validate_precision_reduction_feasibility, restore original data: the
\* lanes below block_size copy their first block_size elements back from
\* work; the other registers stay as invert_block left them
RestoreRows(bsize, work, row) ==
    [l \in Lanes |-> [i \in Cols |->
        IF l < bsize /\ i < bsize THEN work[l][i] ELSE row[l][i]]]

\* validate_precision_reduction_feasibility: the value returned, the
\* condition number computed and the rows on return
validate_precision_reduction_feasibility(bsize, row, p) ==
    LET work == row
        reduced == ReducedRows(bsize, row, p)
        norm == compute_infinity_norm(bsize, bsize, reduced)
        inv == invert_block(bsize, reduced,
                            [l \in Lanes |-> l], [l \in Lanes |-> l])
        block_cond ==
            RMul(norm, compute_infinity_norm(bsize, bsize, inv.row))
    IN [feasible |-> FeasibilityTest(inv.status[0], block_cond),
        block_cond |-> block_cond,
        row |-> RestoreRows(bsize, work, ProbedRows(bsize, row, inv.row))]

\* reduce(warp, prec_descriptor, x & y) over the subwarps of the warp
RECURSIVE reduce_and(_, _)
reduce_and(prec_descriptor, S) ==
    IF S = {} THEN AllOnes
    ELSE LET c == CHOOSE x \in S : TRUE
         IN prec_descriptor[c] \cap reduce_and(prec_descriptor, S \ {c})

\* variant: every subwarp resolves its own descriptor
WarpPrecision_subwarp(prec_descriptor, s) ==
    get_optimal_storage_reduction(prec_descriptor[s])

\* the precision the lanes of subwarp s resolve after the reduction over
\* the warp
WarpPrecision(prec_descriptor, s) ==
    get_optimal_storage_reduction(reduce_and(prec_descriptor, Subwarps))

\* the diagonal blocks of the matrix
JacBlockSizes == {1, 2}

JacBlocks ==
    UNION {[(0 .. n - 1) -> [(0 .. n - 1) -> 0 .. JacEntryMax]] :
              n \in JacBlockSizes} \cup
    {[r \in 0 .. 1 |-> [c \in 0 .. 1 |-> IF r = c THEN 1 + 2 * r ELSE 0]],
     [r \in 0 .. 1 |-> [c \in 0 .. 1 |-> IF r = c THEN Pow2(14 * r) ELSE 0]],
     [r \in 0 .. max_problem_size |->
         [c \in 0 .. max_problem_size |-> IF r = c THEN 1 ELSE 0]]}

\* the blocks and requests of the second and later blocks of a launch
JacPeerBlocks ==
    {[r \in 0 .. 0 |-> [c \in 0 .. 0 |-> 1]],
     [r \in 0 .. 1 |-> [c \in 0 .. 1 |-> IF r = c THEN Pow2(14 * r) ELSE 0]]}

\* block_ptrs[block_id + 1] - block_ptrs[block_id]
BlockSize(M) == Cardinality(DOMAIN M)

\* the accuracy parameter of the preconditioner
JacAccuracies == {<<1, 10>>, <<100, 1>>}

\* the block_precisions the caller passes in
RequestedPrecisions == {autodetect, "p0n0", "p1n0"}
PeerPrecisions == {autodetect, "p0n0"}

\* a block no subwarp handles
NoBlock == <<>>

\* memory the kernel has not written
Unwritten == <<>>
NoCondition == <<-1, 1>>

JacInit ==
    /\ \E nb \in 1 .. JacSubwarps :
       \E blocks \in [Subwarps -> JacBlocks \cup {NoBlock}] :
       \E precs \in [Subwarps -> RequestedPrecisions \cup {"none"}] :
       \E acc \in JacAccuracies :
       \E g \in GarbageValues :
          /\ \A s \in Subwarps :
                /\ (blocks[s] = NoBlock) <=> (s >= nb)
                /\ (precs[s] = "none") <=> (s >= nb)
                /\ (0 < s /\ s < nb) =>
                      /\ blocks[s] \in JacPeerBlocks
                      /\ precs[s] \in PeerPrecisions
          /\ jac_in = [num_blocks |-> nb, blocks |-> blocks,
                       block_precisions |-> precs,
                       accuracy |-> acc, garbage |-> g]
          /\ jac_block_precisions = precs
    /\ jac_reg = [s \in Subwarps |->
                    [pc |-> "host",
                     row |-> <<>>,
                     perm |-> [l \in Lanes |-> l],
                     trans_perm |-> [l \in Lanes |-> l],
                     prec_descriptor |-> AllOnes,
                     prec |-> "none"]]
    /\ jac_conditioning = [s \in Subwarps |-> NoCondition]
    /\ jac_block_data = [s \in Subwarps |-> Unwritten]

\* block_id < num_blocks
HasBlock(s) == s < jac_in.num_blocks

\* block_size of subwarp s
JacBlockSize(s) == IF HasBlock(s) THEN BlockSize(jac_in.blocks[s]) ELSE 0

\* variant: the host launches whatever it is given
LaunchAccepted_any == TRUE

\* the host's check of the configuration: no block exceeds the compiled
\* maximum max_block_size
LaunchAccepted ==
    \A s \in Subwarps : JacBlockSize(s) <= max_problem_size

\* the host side of the generation: reject the configuration or launch the
\* kernel
JacLaunch ==
    /\ \A s \in Subwarps : jac_reg[s].pc = "host"
    /\ jac_reg' = [s \in Subwarps |->
          [jac_reg[s] EXCEPT
              !.pc = IF LaunchAccepted THEN "extract" ELSE "rejected"]]
    /\ UNCHANGED <<jac_in, jac_conditioning, jac_block_precisions,
                   jac_block_data>>
    /\ UNCHANGED nonJacVars

\* extract_transposed_diag_blocks: lane x of the subwarp of block b gets
\* block_row[i] = A[bstart + i][bstart + x]; the other registers keep
\* what they held
JacExtract ==
    /\ \A s \in Subwarps : jac_reg[s].pc = "extract"
    /\ jac_reg' = [s \in Subwarps |->
          [jac_reg[s] EXCEPT
              !.pc = "compute",
              !.row = [x \in Lanes |-> [i \in Cols |->
                          IF x < JacBlockSize(s) /\ i < JacBlockSize(s)
                          THEN Rat(jac_in.blocks[s][i][x])
                          ELSE Rat(jac_in.garbage)]]]]
    /\ UNCHANGED <<jac_in, jac_conditioning, jac_block_precisions,
                   jac_block_data>>
    /\ UNCHANGED nonJacVars

\* the probe copy validate_precision_reduction_feasibility leaves in work:
\* work[i * stride + thread_rank] = row[i]
ProbeCopy(bsize, row) ==
    [i \in 0 .. bsize - 1 |->
        [prec |-> "probe", vals |-> [l \in 0 .. bsize - 1 |-> row[l][i]]]]

\* the block as the lanes of a subwarp write it in the format of prec
StoredBlock(bsize, row, perm, trans_perm, prec) ==
    LET M == copy_matrix_and_transpose(bsize, row, perm, trans_perm)
    IN [a \in 0 .. bsize - 1 |->
           [prec |-> prec,
            vals |-> [b \in 0 .. bsize - 1 |-> StoreAs(prec, M[a][b])]]]

\* adaptive_generate, the branch of autodetect: the descriptor, the rows
\* the verificators leave and whether a probe copy was written
detect_precision(bsize, row, accuracy, block_cond) ==
    IF Accurate(accuracy, block_cond, ReducedEpsExp)
    THEN LET v1 == validate_precision_reduction_feasibility(
                       bsize, row, HalfBits)
             v2 == validate_precision_reduction_feasibility(
                       bsize, v1.row, HalfBits)
         IN [prec_descriptor |->
                 get_supported_storage_reductions(
                     accuracy, block_cond, v1.feasible, v2.feasible),
             row |-> IF v1.feasible THEN v2.row ELSE v1.row,
             probed |-> TRUE]
    ELSE [prec_descriptor |->
              get_supported_storage_reductions(accuracy, block_cond,
                                               FALSE, FALSE),
          row |-> row,
          probed |-> FALSE]

\* adaptive_generate from the inversion to the descriptor of the subwarp
JacCompute(s) ==
    /\ jac_reg[s].pc = "compute"
    /\ IF HasBlock(s)
       THEN \E bsize \in {JacBlockSize(s)} :
            \E inv \in {invert_block(bsize, jac_reg[s].row, jac_reg[s].perm,
                                    jac_reg[s].trans_perm)} :
            \E block_cond \in
                  {RMul(compute_infinity_norm(bsize, bsize, jac_reg[s].row),
                        compute_infinity_norm(bsize, bsize, inv.row))} :
            \E prec \in {jac_block_precisions[s]} :
            \E det \in {IF prec = autodetect
                        THEN detect_precision(bsize, inv.row,
                                              jac_in.accuracy, block_cond)
                        ELSE [prec_descriptor |-> singleton(prec),
                              row |-> inv.row,
                              probed |-> FALSE]} :
               /\ jac_conditioning' =
                     [jac_conditioning EXCEPT ![s] = block_cond]
               /\ jac_reg' = [jac_reg EXCEPT
                     ![s].pc = "reduce",
                     ![s].row = det.row,
                     ![s].perm = inv.perm,
                     ![s].trans_perm = inv.trans_perm,
                     ![s].prec_descriptor = det.prec_descriptor]
               /\ jac_block_data' =
                     IF det.probed
                     THEN [jac_block_data EXCEPT
                              ![s] = ProbeCopy(bsize, inv.row)]
                     ELSE jac_block_data
       ELSE /\ jac_reg' = [jac_reg EXCEPT ![s].pc = "reduce"]
            /\ UNCHANGED <<jac_conditioning, jac_block_data>>
    /\ UNCHANGED <<jac_in, jac_block_precisions>>
    /\ UNCHANGED nonJacVars

\* the reduction over the warp: every lane of the warp takes part
JacReduce ==
    /\ \A s \in Subwarps : jac_reg[s].pc = "reduce"
    /\ jac_reg' = [s \in Subwarps |->
          [jac_reg[s] EXCEPT
              !.pc = "store",
              !.prec = WarpPrecision(
                           [t \in Subwarps |-> jac_reg[t].prec_descriptor],
                           s)]]
    /\ UNCHANGED <<jac_in, jac_conditioning, jac_block_precisions,
                   jac_block_data>>
    /\ UNCHANGED nonJacVars

\* store the block back into memory
JacStore(s) ==
    /\ jac_reg[s].pc = "store"
    /\ jac_reg' = [jac_reg EXCEPT ![s].pc = "done"]
    /\ IF HasBlock(s)
       THEN /\ jac_block_precisions' =
                  [jac_block_precisions EXCEPT ![s] = jac_reg[s].prec]
            /\ jac_block_data' =
                  [jac_block_data EXCEPT
                      ![s] = StoredBlock(JacBlockSize(s), jac_reg[s].row,
                                         jac_reg[s].perm,
                                         jac_reg[s].trans_perm,
                                         jac_reg[s].prec)]
       ELSE UNCHANGED <<jac_block_precisions, jac_block_data>>
    /\ UNCHANGED <<jac_in, jac_conditioning>>
    /\ UNCHANGED nonJacVars

JacNext ==
    \/ JacLaunch
    \/ JacExtract
    \/ \E s \in Subwarps : JacCompute(s)
    \/ JacReduce
    \/ \E s \in Subwarps : JacStore(s)

JacSpecInit == JacInit /\ SchedIdle /\ InvIdle /\ SymIdle /\ SelIdle /\
    ForestIdle /\ CritIdle

JacSpec == JacSpecInit /\ [][JacNext]_vars

JacDone(s) == jac_reg[s].pc = "done"

(***************************************************************************)
(* Reference notions for the precision detection                           *)
(***************************************************************************)
\* the infinity norm of an n x n matrix
RefNorm(n, M) ==
    RMaxOver([a \in 0 .. n - 1 |->
                 RSum([b \in 0 .. n - 1 |-> RAbs(M[a][b])], 0 .. n - 1)],
             0 .. n - 1)

\* determinant and inverse of a matrix of size 1 or 2
RefDet(n, M) ==
    IF n = 1 THEN M[0][0]
    ELSE RAdd(RMul(M[0][0], M[1][1]), RNeg(RMul(M[0][1], M[1][0])))

RefInverse(n, M) ==
    IF n = 1 THEN <<  <<RDiv(one, M[0][0])>>  >>
    ELSE LET det == RDiv(one, RefDet(n, M))
         IN << <<RMul(det, M[1][1]), RMul(det, RNeg(M[0][1]))>>,
               <<RMul(det, RNeg(M[1][0])), RMul(det, M[0][0])>> >>

\* a tuple as a matrix over 0 .. n - 1
ZeroBased(n, T) == [a \in 0 .. n - 1 |-> [b \in 0 .. n - 1 |-> T[a + 1][b + 1]]]

RefCond(n, M) ==
    RMul(RefNorm(n, M), RefNorm(n, ZeroBased(n, RefInverse(n, M))))

\* the registers of subwarp s after a round trip through half
RoundTripped(s) ==
    [l \in 0 .. JacBlockSize(s) - 1 |-> [i \in 0 .. JacBlockSize(s) - 1 |->
        RoundToBits(jac_reg[s].row[l][i], HalfBits)]]

\* subwarp s ran the detection and its descriptor holds a reduced format
Accepted(s) ==
    /\ HasBlock(s)
    /\ jac_in.block_precisions[s] = autodetect
    /\ jac_reg[s].pc \in {"reduce", "store", "done"}
    /\ jac_reg[s].prec_descriptor \cap {"p1n0", "p2n0"} # {}

\* the round-tripped registers pass the test with the roundoff 2^-e
PassesTest(s, e) ==
    /\ RefDet(JacBlockSize(s), RoundTripped(s)) # zero
    /\ ~RLess(RefCond(JacBlockSize(s), RoundTripped(s)), one)
    /\ ScaledFloor(RefCond(JacBlockSize(s), RoundTripped(s)), MarginInv)
           < Pow2(e)

WarpMask ==
    {b \in DescriptorBits :
        \A s \in Subwarps : HasBlock(s) => b \in jac_reg[s].prec_descriptor}

\* C10: after adaptive_generate all blocks handled by the warp have the
\* same committed precision tag and all rows of a block are stored in that
\* precision; the tag is derived from the AND of the masks of every subwarp,
\* where subwarps without a block contribute all ones and write nothing.
C10_WarpAgrees ==
    \A s \in Subwarps :
        JacDone(s) =>
            IF HasBlock(s)
            THEN /\ jac_block_precisions[s] =
                       get_optimal_storage_reduction(WarpMask)
                 /\ DOMAIN jac_block_data[s] = 0 .. JacBlockSize(s) - 1
                 /\ \A a \in DOMAIN jac_block_data[s] :
                       jac_block_data[s][a].prec = jac_block_precisions[s]
                 /\ \A t \in Subwarps :
                       (JacDone(t) /\ HasBlock(t)) =>
                           jac_block_precisions[t] = jac_block_precisions[s]
            ELSE /\ jac_block_precisions[s] = "none"
                 /\ jac_block_data[s] = Unwritten
                 /\ jac_conditioning[s] = NoCondition
                 /\ jac_reg[s].prec_descriptor = AllOnes

\* two blocks whose own descriptors resolve to different precisions have
\* been stored
C10_Witness ==
    /\ \A s \in Subwarps : JacDone(s)
    /\ \E s, t \in Subwarps :
          /\ HasBlock(s)
          /\ HasBlock(t)
          /\ get_optimal_storage_reduction(jac_reg[s].prec_descriptor) #
                get_optimal_storage_reduction(jac_reg[t].prec_descriptor)

(***************************************************************************)
(* forest_from_factor and build_children_from_parents                      *)
(* (cholesky_kernels.hpp.inc:213-270). Arrays are sequences: element k of  *)
(* the program's array is element k + 1 here.                              *)
(***************************************************************************)
\* rows of the factor
NumForestRows == 4

FRows == 0 .. NumForestRows - 1

\* the entries below the diagonal of a symmetric pattern
LowerPairs == {x \in FRows \X FRows : x[2] < x[1]}

\* row j of the factor, which stores L and L^T: the columns in sorted order
FactorRow(P, j) ==
    SortedSeq({j} \cup {i \in FRows : <<i, j>> \in P \/ <<j, i>> \in P})

ForestInit ==
    /\ \E P \in SUBSET LowerPairs :
          frs_in = [pairs |-> P, rows |-> [j \in FRows |-> FactorRow(P, j)]]
    /\ frs_parents = [j \in FRows |-> -1]
    /\ frs_col_idxs = <<>>
    /\ frs_children = <<>>
    /\ frs_child_ptrs = <<>>
    /\ frs_phase = "transform"

\* variant: the scan accepts every column other than l_col
RECURSIVE ScanRow_unordered(_, _, _)
ScanRow_unordered(cols, l_col, nz) ==
    IF nz > Len(cols) THEN NumForestRows
    ELSE IF cols[nz] # l_col THEN cols[nz]
    ELSE ScanRow_unordered(cols, l_col, nz + 1)

\* the loop of the lambda of forest_from_factor from position nz of the row
RECURSIVE ScanRow(_, _, _)
ScanRow(cols, l_col, nz) ==
    IF nz > Len(cols) THEN NumForestRows
    ELSE IF cols[nz] > l_col THEN cols[nz]
    ELSE ScanRow(cols, l_col, nz + 1)

\* variant: the diagonal entry counts as an entry above the column
forest_parent_self(l_col) == ScanRow(frs_in.rows[l_col], l_col - 1, 1)

\* the lambda of forest_from_factor applied to l_col
forest_parent(l_col) == ScanRow(frs_in.rows[l_col], l_col, 1)

\* thrust::transform: one application of the lambda, in any order
ForestTransform(j) ==
    /\ frs_phase = "transform"
    /\ frs_parents[j] = -1
    /\ frs_parents' = [frs_parents EXCEPT ![j] = forest_parent(j)]
    /\ UNCHANGED <<frs_in, frs_col_idxs, frs_children, frs_child_ptrs,
                   frs_phase>>
    /\ UNCHANGED nonForestVars

ParentsWritten == \A j \in FRows : frs_parents[j] # -1

\* exec->copy(num_rows, parents, col_idxs)
BuildCopy ==
    /\ frs_phase = "transform"
    /\ ParentsWritten
    /\ frs_col_idxs' = [k \in 1 .. NumForestRows |-> frs_parents[k - 1]]
    /\ frs_phase' = "sequence"
    /\ UNCHANGED <<frs_in, frs_parents, frs_children, frs_child_ptrs>>
    /\ UNCHANGED nonForestVars

\* thrust::sequence(children, children + num_rows, 0)
BuildSequence ==
    /\ frs_phase = "sequence"
    /\ frs_children' = [k \in 1 .. NumForestRows |-> k - 1]
    /\ frs_phase' = "sort"
    /\ UNCHANGED <<frs_in, frs_parents, frs_col_idxs, frs_child_ptrs>>
    /\ UNCHANGED nonForestVars

\* variant: equal keys come out in reverse order
SortsBefore_unstable(keys, a, b) ==
    keys[a] < keys[b] \/ (keys[a] = keys[b] /\ a > b)

\* stable_sort_by_key: position a of the input comes before position b
SortsBefore(keys, a, b) ==
    keys[a] < keys[b] \/ (keys[a] = keys[b] /\ a < b)

\* the positions of the input in the order of the output
RECURSIVE SortedPositions(_, _)
SortedPositions(keys, S) ==
    IF S = {} THEN <<>>
    ELSE LET first == CHOOSE a \in S :
                          \A b \in S \ {a} : SortsBefore(keys, a, b)
         IN <<first>> \o SortedPositions(keys, S \ {first})

\* thrust::stable_sort_by_key(keys, keys + n, values): both arrays after it
stable_sort_by_key(keys, values) ==
    LET order == SortedPositions(keys, DOMAIN keys)
    IN [keys |-> [k \in DOMAIN keys |-> keys[order[k]]],
        values |-> [k \in DOMAIN keys |-> values[order[k]]]]

BuildSort ==
    /\ frs_phase = "sort"
    /\ LET sorted == stable_sort_by_key(frs_col_idxs, frs_children)
       IN /\ frs_col_idxs' = sorted.keys
          /\ frs_children' = sorted.values
    /\ frs_phase' = "ptrs"
    /\ UNCHANGED <<frs_in, frs_parents, frs_child_ptrs>>
    /\ UNCHANGED nonForestVars

\* components::convert_idxs_to_ptrs(idxs, num_idxs, length, ptrs): ptrs[p]
\* is the number of indices below p, for p in 0 .. length
convert_idxs_to_ptrs(idxs, length) ==
    [p \in 1 .. length + 1 |->
        Cardinality({k \in DOMAIN idxs : idxs[k] < p - 1})]

BuildPtrs ==
    /\ frs_phase = "ptrs"
    /\ frs_child_ptrs' = convert_idxs_to_ptrs(frs_col_idxs, NumForestRows + 1)
    /\ frs_phase' = "done"
    /\ UNCHANGED <<frs_in, frs_parents, frs_col_idxs, frs_children>>
    /\ UNCHANGED nonForestVars

ForestNext ==
    \/ \E j \in FRows : ForestTransform(j)
    \/ BuildCopy
    \/ BuildSequence
    \/ BuildSort
    \/ BuildPtrs

ForestSpecInit ==
    ForestInit /\ SchedIdle /\ InvIdle /\ SymIdle /\ SelIdle /\ JacIdle /\
    CritIdle

ForestSpec == ForestSpecInit /\ [][ForestNext]_vars

\* the rows i > j with a stored entry (i, j)
RowsBelow(j) == {i \in FRows : i > j /\ <<i, j>> \in frs_in.pairs}

\* C11: forest_from_factor sets parents[j] to the smallest row index i > j
\* such that (i, j) is a stored nonzero, and to the pseudo-root num_rows
\* when there is no such entry.
C11_ParentIsFirstBelow ==
    frs_phase # "idle" =>
        \A j \in FRows :
            frs_parents[j] # -1 =>
                IF RowsBelow(j) = {}
                THEN frs_parents[j] = NumForestRows
                ELSE /\ frs_parents[j] \in RowsBelow(j)
                     /\ \A i \in RowsBelow(j) : frs_parents[j] <= i

\* all parents are written; some column has two entries below the
\* diagonal and some column has none
C11_Witness ==
    /\ frs_phase = "transform"
    /\ ParentsWritten
    /\ \E j \in FRows : Cardinality(RowsBelow(j)) >= 2
    /\ \E j \in FRows : j < NumForestRows - 1 /\ RowsBelow(j) = {}

\* the node reached from j after k steps along parents
RECURSIVE Climb(_, _)
Climb(j, k) ==
    IF k = 0 \/ j = NumForestRows THEN j ELSE Climb(frs_parents[j], k - 1)

\* d lies in the subtree below r
Descendant(d, r) ==
    \E k \in 1 .. NumForestRows : d # NumForestRows /\ Climb(d, k) = r

\* C12: the parent map is acyclic: every parents[j] lies in (j, num_rows],
\* following parents from any row reaches the pseudo-root within num_rows
\* steps, and every row comes after all of its descendants.
C12_ForestAcyclic ==
    (frs_phase # "idle" /\ ParentsWritten) =>
        /\ \A j \in FRows : j < frs_parents[j] /\ frs_parents[j] <= NumForestRows
        /\ \A j \in FRows : Climb(j, NumForestRows) = NumForestRows
        /\ \A d, r \in FRows : Descendant(d, r) => d < r

\* a forest with a chain of three rows has been built
C12_Witness ==
    /\ frs_phase = "done"
    /\ \E j \in FRows :
          /\ frs_parents[j] < NumForestRows
          /\ frs_parents[frs_parents[j]] < NumForestRows

\* the pattern with entries (1,0), (2,0) and (3,2)
ForestScenario ==
    /\ NumForestRows = 4
    /\ frs_phase # "idle"
    /\ frs_in.pairs = {<<1, 0>>, <<2, 0>>, <<3, 2>>}
    /\ ParentsWritten

\* C13 as stated: for the 4x4 pattern with nonzeros at (1,0), (2,0) and
\* (3,2) the construction yields parents = [4,4,0,2].
C13_Original ==
    ForestScenario =>
        frs_parents = [j \in FRows |-> <<4, 4, 0, 2>>[j + 1]]

\* C13 as amended: for the 4x4 pattern with nonzeros at (1,0), (2,0) and
\* (3,2) the construction yields parents = [1,4,3,4].
C13_ScenarioParents ==
    ForestScenario =>
        frs_parents = [j \in FRows |-> <<1, 4, 3, 4>>[j + 1]]

\* the forest of the scenario has been built
C13_Witness == ForestScenario /\ frs_phase = "done"

\* children[child_ptrs[p] .. child_ptrs[p + 1])
ChildrenOf(p) ==
    [k \in 1 .. frs_child_ptrs[p + 2] - frs_child_ptrs[p + 1] |->
        frs_children[frs_child_ptrs[p + 1] + k]]

\* C14: build_children_from_parents produces the exact inverse of the
\* parent map: children is a permutation of 0..num_rows-1 and, for every p
\* in 0..num_rows, children[child_ptrs[p] .. child_ptrs[p+1]) is the set
\* {j : parents[j] = p} listed in increasing j.
C14_ChildrenInvertParents ==
    frs_phase = "done" =>
        /\ Len(frs_children) = NumForestRows
        /\ {frs_children[k] : k \in 1 .. NumForestRows} = FRows
        /\ frs_child_ptrs[1] = 0
        /\ \A p \in 0 .. NumForestRows :
              /\ frs_child_ptrs[p + 1] <= frs_child_ptrs[p + 2]
              /\ ChildrenOf(p) =
                    SortedSeq({j \in FRows : frs_parents[j] = p})

\* a node with two children and two roots
C14_Witness ==
    /\ frs_phase = "done"
    /\ \E p \in FRows : Cardinality({j \in FRows : frs_parents[j] = p}) >= 2
    /\ Cardinality({j \in FRows : frs_parents[j] = NumForestRows}) >= 2

(***************************************************************************)
(* Failed inversions in adaptive_generate                                  *)
(***************************************************************************)
\* the values stored for the block of subwarp s
StoredValues(s) ==
    [a \in DOMAIN jac_block_data[s] |-> jac_block_data[s][a].vals]

\* C15: when invert_block fails on a diagonal block (exact zero pivot), an
\* identity or other safe default is stored for it instead of the partially
\* eliminated register contents.
C15_FailedBlockSafe ==
    \A s \in Subwarps :
        (JacDone(s) /\ HasBlock(s) /\
         Singular(JacBlockSize(s), jac_in.blocks[s])) =>
            StoredValues(s) = Identity(JacBlockSize(s))

\* the kernel is running or has run in subwarp s
InKernel(s) == jac_reg[s].pc \notin {"host", "rejected"}

RECURSIVE WaitsOn(_, _, _)
WaitsOn(f, S, k) ==
    IF k = 0 THEN S
    ELSE WaitsOn(f, S \cup UNION {f[r] : r \in S}, k - 1)

Needs(f, r) == WaitsOn(f, f[r], NumRows)

\* r waits on itself or on a row that transitively waits on it
OnCycle(f, r) == r \in Needs(f, r)

\* the patterns with a dependency cycle:
\* a pattern of Patterns with one more entry (r, c), c >= r, that closes a
\* cycle: r waits for itself, or for a later row that waits for r
WithEntry(f, r, c) == [f EXCEPT ![r] = @ \cup {c}]
CyclicPatterns ==
    {g \in {WithEntry(f, e[1], e[2]) :
               f \in Patterns, e \in {x \in Rows \X Rows : x[2] >= x[1]}} :
        \E r \in Rows : OnCycle(g, r)}

CycInit ==
    /\ pattern \in CyclicPatterns
    /\ SchedStart
    /\ InvIdle /\ SymIdle /\ SelIdle /\ JacIdle /\ ForestIdle /\ CritIdle

CycSpec == CycInit /\ [][SchedNext]_vars

CycFairSpec == CycInit /\ [][SchedNext]_vars /\ SchedFairness

\* row r is on a cycle or waits, directly or not, for a row on a cycle
Stuck(r) ==
    \/ OnCycle(pattern, r)
    \/ \E c \in Needs(pattern, r) : OnCycle(pattern, c)

\* no warp has published r or left the elimination loop of r
NeverReady(r) ==
    /\ status[r] = 0
    /\ \A x \in OwnerThreads(r) :
          pc[x[1]][x[2]] \in {"ctor", "spin", "wsync", "elim"}

\* lane 0 of some warp polls a flag that is not set
Spinning ==
    \E p \in Blocks, t \in Threads :
        /\ pc[p][t] = "spin"
        /\ ~WaitObserved(p, CurrentDep(p, t))

\* C17: with a dependency cycle in the pattern, the rows involved never
\* publish ready, the kernel never terminates, and from some point on a
\* warp spins in wait() forever.
C17_CycleSpinsForever ==
    /\ [](\A r \in Rows : Stuck(r) => NeverReady(r))
    /\ [](~AllFinished)
    /\ <>[]Spinning

\* a warp spins on a row of a cycle after every row that can finish has
\* published
C17_Witness ==
    /\ \A r \in Rows : ~Stuck(r) => status[r] = 1
    /\ \E r \in Rows : ~Stuck(r)
    /\ \E p \in Blocks, t \in Threads :
          /\ pc[p][t] = "spin"
          /\ OnCycle(pattern, work_id(p, t))
          /\ OnCycle(pattern, CurrentDep(p, t))
          /\ CurrentDep(p, t) # work_id(p, t)

(***************************************************************************)
(* count_buckets, block_prefix_sum and find_bucket                         *)
(***************************************************************************)
\* the splitter s_b of the tree: leaf b, for b in 1 .. searchtree_width - 1
Leaf(b) == sel_tree[searchtree_inner_size + b]

\* the elements count_buckets has classified
Classified == {i \in DOMAIN sel_oracles : sel_oracles[i] # -1}

\* C18: every element e that count_buckets puts into bucket b satisfies
\* s_b <= |e| < s_(b+1), where s_1 <= ... <= s_(W-1) are the splitters of the
\* tree, s_0 is minus infinity and s_W is plus infinity; splitters may repeat.
C18_BucketBrackets ==
    /\ sel_phase \notin {"tree", "base", "done"} =>
          \A b \in 1 .. searchtree_width - 2 : Leaf(b) <= Leaf(b + 1)
    /\ \A i \in Classified :
          LET b == sel_oracles[i]
              e == abs(sel_values[i])
          IN /\ b \in SelBuckets
             /\ b > 0 => Leaf(b) <= e
             /\ b < searchtree_width - 1 => e < Leaf(b + 1)

\* every element is classified, two splitters are equal, an element equal to
\* them sits in the bucket above both, and the lowest bucket is not empty
C18_Witness ==
    /\ Classified = DOMAIN sel_values
    /\ \E b \in 1 .. searchtree_width - 2 :
          /\ Leaf(b) = Leaf(b + 1)
          /\ \E i \in Classified :
                abs(sel_values[i]) = Leaf(b) /\ sel_oracles[i] > b
    /\ \E i \in Classified : sel_oracles[i] = 0
    /\ \E i \in Classified : sel_values[i] < 0

\* the elements of block b that count_buckets has put into bucket k
InBucket(b, k) == {i \in BlockItems(b, SelSize) : sel_oracles[i] = k}

\* count_buckets has finished on every block of the grid
AllCounted == sel_phase = "count" /\ sel_counted = SelBlocks

\* C19: after count_buckets on a grid that covers the input every index below
\* size has one oracle value in 0 .. W - 1, the counters of all blocks and
\* buckets add up to size whatever the order of the atomic increments, and
\* the prefix sum of the bucket totals is non-decreasing and ends in size.
C19_CountsAddUp ==
    /\ sel_phase = "count" =>
          \A b \in SelBlocks :
              sel_sh_counter[b] # <<>> =>
                  \A k \in SelBuckets :
                      sel_sh_counter[b][k] = Cardinality(InBucket(b, k))
    /\ AllCounted =>
          /\ \A i \in 0 .. SelSize - 1 : sel_oracles[i] \in SelBuckets
          /\ \A b \in SelBlocks, k \in SelBuckets :
                sel_partial[b + k * SelGrid(SelSize)] =
                    Cardinality(InBucket(b, k))
          /\ SumOver(sel_partial, DOMAIN sel_partial) = SelSize
    /\ sel_phase = "totals" =>
          SumOver(sel_totals, SelBuckets) = SelSize
    /\ sel_phase = "find" =>
          /\ sel_totals[0] = 0
          /\ \A k \in SelBuckets : sel_totals[k] <= sel_totals[k + 1]
          /\ \A k \in SelBuckets :
                sel_totals[k + 1] - sel_totals[k] =
                    Cardinality({i \in DOMAIN sel_oracles : sel_oracles[i] = k})
          /\ sel_totals[searchtree_width] = SelSize

\* the prefix sum of a grid of several blocks, two of which counted two
\* elements each of the same bucket
C19_Witness ==
    /\ sel_phase = "find"
    /\ \E b1 \in SelBlocks, b2 \in SelBlocks, k \in SelBuckets :
          /\ b1 # b2
          /\ Cardinality(InBucket(b1, k)) > 1
          /\ Cardinality(InBucket(b2, k)) > 1

\* the buckets of a prefix sum that hold rank r
HoldingRank(prefix_sum, r) ==
    {k \in SelBuckets : prefix_sum[k] <= r /\ r < prefix_sum[k + 1]}

\* C20: for a rank r below prefix_sum[W], find_bucket leaves in
\* prefix_sum[0 .. 2] the index, the begin and the size of the one bucket
\* with begin <= r < begin + size, taken from the prefix sum as it was before
\* the kernel wrote to it; the rank inside the bucket is r - begin.
C20_FindsHoldingBucket ==
    /\ [][(sel_phase = "find" /\ sel_phase' = "filter") =>
             /\ 0 <= sel_rank /\ sel_rank < sel_totals[searchtree_width]
             /\ \E k \in SelBuckets :
                   /\ HoldingRank(sel_totals, sel_rank) = {k}
                   /\ sel_totals[k] < sel_totals[k + 1]
                   /\ sel_totals'[0] = k
                   /\ sel_totals'[1] = sel_totals[k]
                   /\ sel_totals'[2] = sel_totals[k + 1] - sel_totals[k]]_vars
    /\ [][(sel_phase = "filter" /\ sel_phase' # "filter") =>
             /\ sel_rank' = sel_rank - sel_totals[1]
             /\ 0 <= sel_rank' /\ sel_rank' < sel_totals[2]]_vars

\* find_bucket has stored bucket 0, which holds several elements, for a rank
\* that is not the first of the bucket, while later buckets hold elements too
C20_Witness ==
    /\ sel_phase = "filter"
    /\ sel_totals[0] = 0
    /\ sel_totals[2] > 1
    /\ sel_rank > sel_totals[1]
    /\ sel_totals[2] < SelSize

(***************************************************************************)
(* filter_bucket                                                           *)
(***************************************************************************)
\* the elements of block k that belong to the bucket filter_bucket copies
BucketItems(k) == InBucket(k, SelBucket.idx)

\* the offset of block k in the output, as block_prefix_sum left it
BlockOffset(k) == sel_partial[k + SelBucket.idx * SelGrid(SelSize)]

\* the positions of the output that hold a value
Written == {pos \in DOMAIN sel_out : sel_out[pos] # -1}

\* C21: filter_bucket for bucket b writes the magnitude of every element
\* whose oracle is b to an index of its own below totals[b] and writes
\* nothing else, whatever the order of the atomic increments; the elements of
\* block k fill exactly [offset_k, offset_k + count_k), so that the output is
\* a permutation of the elements of the bucket.
C21_FilterPermutes ==
    sel_phase = "filter" =>
        /\ Written \subseteq 0 .. SelBucket.size - 1
        /\ \A k \in SelBlocks :
              LET done == BucketItems(k) \cap sel_filtered
                  range == BlockOffset(k) ..
                               BlockOffset(k) + Cardinality(done) - 1
                  full == BlockOffset(k) ..
                              BlockOffset(k) + Cardinality(BucketItems(k)) - 1
              IN /\ sel_counter[k] # -1 =>
                       sel_counter[k] = BlockOffset(k) + Cardinality(done)
                 /\ Written \cap full = range
                 /\ \A v \in {abs(sel_values[i]) : i \in BucketItems(k)} :
                       Cardinality({pos \in range : sel_out[pos] = v}) =
                           Cardinality({i \in done : abs(sel_values[i]) = v})
                 /\ \A j \in SelBlocks :
                       j < k => BlockOffset(j) + Cardinality(BucketItems(j))
                                    <= BlockOffset(k)
        /\ sel_filtered = DOMAIN sel_values =>
              Written = 0 .. SelBucket.size - 1

\* filter_bucket has run on every element; two blocks copied two elements
\* each and the input holds elements of other buckets
C21_Witness ==
    /\ sel_phase = "filter"
    /\ sel_filtered = DOMAIN sel_values
    /\ \E j \in SelBlocks, k \in SelBlocks :
          /\ j # k
          /\ Cardinality(BucketItems(j)) > 1
          /\ Cardinality(BucketItems(k)) > 1
    /\ SelBucket.size < SelSize

(***************************************************************************)
(* The pivots of invert_block                                              *)
(***************************************************************************)
\* the loop of invert_block is at a step that chooses a pivot
PivotStep == blk_i >= 0 /\ blk_i < problem_size /\ blk_i' = blk_i + 1

\* the lane the step that is taken chooses as its pivot
PivotOfStep == blk'.trans_perm[blk_i]

\* the block [[0,1],[1,0]]
SwapBlock == [r \in 0 .. 1 |-> [c \in 0 .. 1 |-> IF r = c THEN 0 ELSE 1]]

\* C22: at every step i of invert_block the pivot is a lane below
\* problem_size that has not been a pivot before, the one with the largest
\* |row[i]| among those, the lowest lane winning ties; for [[0,1],[1,0]]
\* lane 1 is the pivot of step 0 and the unpermuted result is [[0,1],[1,0]].
C22_PivotIsLargestFree ==
    /\ [][PivotStep =>
             /\ PivotOfStep < problem_size
             /\ ~blk.pivoted[PivotOfStep]
             /\ blk'.pivoted[PivotOfStep]
             /\ \A q \in 0 .. problem_size - 1 :
                   ~blk.pivoted[q] =>
                       /\ ~RLess(RAbs(blk.row[PivotOfStep][blk_i]),
                                 RAbs(blk.row[q][blk_i]))
                       /\ RAbs(blk.row[q][blk_i]) =
                              RAbs(blk.row[PivotOfStep][blk_i])
                            => PivotOfStep <= q
             /\ (blk_input = SwapBlock /\ blk_i = 0) => PivotOfStep = 1]_vars
    /\ [](InvReturned /\ blk_input = SwapBlock =>
             UnpermutedResult = RatMatrix(2, SwapBlock))

\* invert_block has returned for [[0,1],[1,0]] in a group with a lane that
\* holds no row
C22_Witness ==
    /\ InvReturned
    /\ problem_size = 2
    /\ blk_input = SwapBlock
    /\ blk.trans_perm[0] = 1
    /\ \A l \in Lanes : blk.status[l]

(***************************************************************************)
(* The selection as a function of the array and the rank                   *)
(***************************************************************************)
\* levels of the selection that are followed
MaxLevels == 3

\* the k-th element (from 0) of a set of indices, in increasing order
RECURSIVE NthIndex(_, _)
NthIndex(S, k) ==
    LET m == CHOOSE i \in S : \A j \in S : i <= j
    IN IF k = 0 THEN m ELSE NthIndex(S \ {m}, k - 1)

\* an array that a kernel has written: every entry is computed once, when the
\* array is written, not each time it is read (always true)
InMemory(f) == DOMAIN f = DOMAIN f

\* one level of the selection with the threads of filter_bucket taken in
\* the order of their elements, then the next level or the base case; -1
\* when more than MaxLevels levels would be needed
RECURSIVE SelectFrom(_, _, _)
SelectFrom(values, rank, levels) ==
    LET tree == build_searchtree(values)
        oracles == [i \in DOMAIN values |-> Bucket(tree, abs(values[i]))]
        counts == [k \in 0 .. searchtree_width |->
                      Cardinality({i \in DOMAIN values : oracles[i] = k})]
        prefix_sum == [k \in 0 .. searchtree_width |->
                          SumOver(counts, {j \in 0 .. searchtree_width : j < k})]
        pred == [i \in 0 .. searchtree_width - 1 |->
                    find_bucket_pred(prefix_sum, rank, i)]
        bucket == find_bucket_store(
                      prefix_sum, group_wide_search(0, searchtree_width, pred))
        members == {i \in DOMAIN values : oracles[i] = bucket[0]}
        output == [k \in 0 .. bucket[2] - 1 |->
                      abs(values[NthIndex(members, k)])]
    IN IF ~(InMemory(tree) /\ InMemory(oracles) /\ InMemory(prefix_sum)
              /\ InMemory(output))
       THEN -1
       ELSE IF bucket[2] <= basecase_size
       THEN basecase_select(output, bucket[2], rank - bucket[1], -1)
       ELSE IF levels = 1 THEN -1
       ELSE SelectFrom(output, rank - bucket[1], levels - 1)

\* rearrangements of the positions 0 .. n - 1: the rotations, the exchanges of
\* two neighbours and the reversal
Shuffles(n) ==
    {[i \in 0 .. n - 1 |-> (i + k) % n] : k \in 0 .. n - 1}
    \cup {[i \in 0 .. n - 1 |-> IF i = k THEN k + 1
                                ELSE IF i = k + 1 THEN k ELSE i] :
             k \in 0 .. n - 2}
    \cup {[i \in 0 .. n - 1 |-> n - 1 - i]}

Shuffled(a, q) == [i \in DOMAIN a |-> a[q[i]]]

\* C23: for a fixed rank the value the selection returns is the same for
\* every rearrangement of the input array.
C23_OrderIrrelevant ==
    sel_phase = "done" =>
        \A q \in Shuffles(Size(sel_call.values)) :
            LET other == SelectFrom(Shuffled(sel_call.values, q),
                                    sel_call.rank, MaxLevels)
            IN other # -1 => other = sel_threshold

\* the selection has returned for an array of different magnitudes after two
\* levels, and a rearrangement of the array returns as well
C23_Witness ==
    /\ sel_phase = "done"
    /\ sel_recursed
    /\ \E i \in DOMAIN sel_call.values : abs(sel_call.values[i]) # sel_threshold
    /\ \E q \in Shuffles(Size(sel_call.values)) :
          /\ Shuffled(sel_call.values, q) # sel_call.values
          /\ SelectFrom(Shuffled(sel_call.values, q), sel_call.rank,
                        MaxLevels) = sel_threshold

(***************************************************************************)
(* stop::Combined and stop::combine, as their tests use them               *)
(***************************************************************************)
\* largest number of factories handed over
MaxCriteria == 3

\* a null factory pointer, and the factories of the tests
NullFactory == "nullptr"
Factories == {NullFactory, "Iteration", "Time"}

FactoryVectors == UNION {[1 .. n -> Factories] : n \in 0 .. MaxCriteria}

CritInit ==
    /\ crit_factories \in FactoryVectors
    /\ crit_via \in {"build", "combine"}
    /\ crit_pc = "start"
    /\ crit_i = 1
    /\ crit_criteria = <<>>
    /\ crit_result = "none"

\* Combined::build().with_criteria(...).on(exec): the factory keeps the
\* vector as it is
CritBuild ==
    /\ crit_pc = "start"
    /\ crit_via = "build"
    /\ crit_pc' = "factory"
    /\ UNCHANGED <<crit_factories, crit_via, crit_i, crit_criteria,
                   crit_result>>
    /\ UNCHANGED nonCritVars

\* variant: combine() rejects a vector only when it holds no valid factory
combine_rejects_all_null(factories) ==
    \A k \in DOMAIN factories : factories[k] = NullFactory

\* combine(): the vectors it throws NotSupported for; the first factory has
\* to be valid
combine_rejects(factories) ==
    Len(factories) = 0 \/ factories[1] = NullFactory

\* combine(factories): throws, returns the only factory, or builds a Combined
\* factory from the vector
CritCombine ==
    /\ crit_pc = "start"
    /\ crit_via = "combine"
    /\ IF combine_rejects(crit_factories)
       THEN crit_pc' = "done" /\ crit_result' = "NotSupported"
       ELSE /\ crit_pc' = IF Len(crit_factories) = 1 THEN "single"
                          ELSE "factory"
            /\ UNCHANGED crit_result
    /\ UNCHANGED <<crit_factories, crit_via, crit_i, crit_criteria>>
    /\ UNCHANGED nonCritVars

\* generate() on the factory combine() returned for a vector of one
CritGenerateSingle ==
    /\ crit_pc = "single"
    /\ crit_criteria' = <<crit_factories[1]>>
    /\ crit_result' = "ok"
    /\ crit_pc' = "done"
    /\ UNCHANGED <<crit_factories, crit_via, crit_i>>
    /\ UNCHANGED nonCritVars

\* generate() on a Combined factory: the constructor looks at one factory
\* and generates its criterion unless it is null
CritVisit ==
    /\ crit_pc = "factory"
    /\ crit_i <= Len(crit_factories)
    /\ crit_criteria' = IF crit_factories[crit_i] # NullFactory
                        THEN Append(crit_criteria, crit_factories[crit_i])
                        ELSE crit_criteria
    /\ crit_i' = crit_i + 1
    /\ UNCHANGED <<crit_factories, crit_via, crit_pc, crit_result>>
    /\ UNCHANGED nonCritVars

\* generate() on a Combined factory: the constructor after its loop throws
\* when it generated no criterion
CritFinish ==
    /\ crit_pc = "factory"
    /\ crit_i > Len(crit_factories)
    /\ crit_result' = IF Len(crit_criteria) = 0 THEN "NotSupported" ELSE "ok"
    /\ crit_pc' = "done"
    /\ UNCHANGED <<crit_factories, crit_via, crit_i, crit_criteria>>
    /\ UNCHANGED nonCritVars

CritNext ==
    \/ CritBuild
    \/ CritCombine
    \/ CritGenerateSingle
    \/ CritVisit
    \/ CritFinish

CritSpecInit ==
    CritInit /\ SchedIdle /\ InvIdle /\ SymIdle /\ SelIdle /\ JacIdle /\
    ForestIdle

CritSpec == CritSpecInit /\ [][CritNext]_vars

\* the calls of the tests of Combined with the outcome each test asserts
CombinedTests ==
    {<<"build", <<"Iteration", NullFactory>>, "ok">>,
     <<"build", <<NullFactory, NullFactory>>, "NotSupported">>,
     <<"build", <<>>, "NotSupported">>,
     <<"combine", <<>>, "NotSupported">>,
     <<"combine", <<NullFactory>>, "NotSupported">>,
     <<"combine", <<NullFactory, NullFactory>>, "NotSupported">>,
     <<"combine", <<NullFactory, "Iteration">>, "NotSupported">>,
     <<"combine", <<"Iteration", NullFactory>>, "ok">>}

HasValid(factories) ==
    \E k \in DOMAIN factories : factories[k] # NullFactory

NextLevel == sel_phase = "filter" /\ sel_phase' = "tree"

\* C25: the bucket selected at a level of the selection holds strictly fewer
\* elements than the input of the level, so that after finitely many levels
\* the base case runs, also on inputs with many elements of equal magnitude.
C25_BucketShrinks ==
    [][NextLevel => Size(sel_values') < Size(sel_values)]_vars

(***************************************************************************)
(* The order in which rows are handed out                                  *)
(***************************************************************************)
\* the work ids of the threads of a block that has claimed its offset
WorkIds(p) == {work_id(p, t) : t \in Threads}

\* thread 0 of block p performs the atomic increment of the block counter
Claims(p) == ~Claimed(p) /\ block_offset'[p] # -1

\* C26: rows are handed out in claim order: when a block performs its atomic
\* increment, every work id of every block that incremented before it is
\* smaller than each of its own work ids, and every row below its work ids
\* belongs to a warp of a block that has already started.
C26_ClaimOrder ==
    [][\A p \in Blocks : Claims(p) =>
          /\ \A q \in Blocks : Claimed(q) =>
                \A a \in WorkIds(q) : \A b \in WorkIds(p)' : a < b
          /\ \A b \in WorkIds(p)' : \A r \in 0 .. b - 1 :
                \/ r \in WorkIds(p)'
                \/ \E q \in Blocks : /\ Claimed(q)
                                     /\ bstate[q] # "pending"
                                     /\ r \in WorkIds(q)]_vars

\* the block launched with the highest index incremented first and the
\* block with index 0 has just incremented after it
C26_Witness ==
    /\ Claimed(num_blocks - 1)
    /\ Claimed(0)
    /\ bstate[0] = "ctor"
    /\ block_offset[0] > block_offset[num_blocks - 1]
    /\ \A a \in WorkIds(num_blocks - 1) : \A b \in WorkIds(0) : a < b

(***************************************************************************)
(* The entries of vals the Cholesky factorize kernel writes.  The matrix   *)
(* is the symmetric pattern whose strictly lower part is pattern: row i    *)
(* stores its lower columns, the diagonal and, above it, the rows that     *)
(* have i as a lower column.                                               *)
(***************************************************************************)
\* the columns stored in row i
RowCols(i) == pattern[i] \cup {i} \cup {j \in Rows : i \in pattern[j]}

\* the stored entries <<row, column>>
Stored == {e \in Rows \X Rows : e[2] \in RowCols(e[1])}

\* nnz: the number of stored elements
nnz == Cardinality(Stored)

\* the position of entry (i, j) in cols and vals (rows in order, the
\* columns of a row sorted)
NzOf(i, j) ==
    Cardinality({e \in Stored : e[1] < i \/ (e[1] = i /\ e[2] < j)})

\* the entry stored at a position
EntryAt(nz) == CHOOSE e \in Stored : NzOf(e[1], e[2]) = nz

\* row_ptrs[i]
row_ptrs(i) == Cardinality({e \in Stored : e[1] < i})

\* diag_idxs[i]: the position of the diagonal of row i
diag_idxs(i) == NzOf(i, i)

\* initialize(): transpose_idxs is 0 .. nnz - 1 sorted stably by row and
\* then stably by column; the value at position nz is the position of the
\* entry that nz entries precede in the order by column and then by row
transpose_idxs(nz) ==
    LET e == CHOOSE e \in Stored :
                 Cardinality({f \in Stored :
                                 \/ f[2] < e[2]
                                 \/ (f[2] = e[2] /\ f[1] < e[1])}) = nz
    IN  NzOf(e[1], e[2])

\* lookup.lookup_unsafe(col) + row_begin for the lookup of a row: the
\* position of the column in the row; for a column the row does not store
\* the result is not defined and may be any position
lookup_unsafe(row, col) ==
    IF col \in RowCols(row) THEN {NzOf(row, col)} ELSE 0 .. nnz - 1

\* the positions a lane visits in a loop from a start position to an end
\* position with stride warp_size
LanePositions(first, end, lane) ==
    {nz \in first .. end - 1 : (nz - first) % SubwarpSize = lane}

\* an elimination that updates every column of the dependency
UpperTest_all(upper_col, row) == TRUE

\* if (upper_col >= row)
UpperTest(upper_col, row) == upper_col >= row

\* the positions a lane may write while row eliminates with column dep
ElimWrites(row, dep, lane) ==
    UNION {lookup_unsafe(row, EntryAt(upper_nz)[2]) :
              upper_nz \in {nz \in LanePositions(diag_idxs(dep),
                                                 row_ptrs(dep + 1), lane) :
                               UpperTest(EntryAt(nz)[2], row)}}

\* the positions a lane writes after the eliminations: the scaled upper
\* entries, their transposes and, on lane 0, the diagonal
FinWrites(row, lane) ==
    LET upper == LanePositions(diag_idxs(row) + 1, row_ptrs(row + 1), lane)
    IN  upper \cup {transpose_idxs(nz) : nz \in upper}
            \cup (IF lane = 0 THEN {diag_idxs(row)} ELSE {})

\* all positions the warp of a row may write during the kernel
RowWrites(row) ==
    UNION {FinWrites(row, lane) \cup
           UNION {ElimWrites(row, dep, lane) : dep \in pattern[row]} :
              lane \in 0 .. SubwarpSize - 1}

\* the row whose warp is the writer of an entry: the row of an entry on or
\* above the diagonal, the column of an entry below it
Owner(e) == IF e[2] >= e[1] THEN e[1] ELSE e[2]

\* a thread performs the updates of one dependency
Eliminates(p, t) == pc[p][t] = "elim" /\ pc'[p][t] # "elim"

\* a thread performs the scaling, the transpose copy and the diagonal store
Finishes(p, t) == pc[p][t] = "fin" /\ pc'[p][t] = "msync"

\* every position in a set is an entry of the given row's warp and none of
\* them is a strictly lower entry of the row itself
OwnWrites(row, positions) ==
    \A nz \in positions :
        /\ Owner(EntryAt(nz)) = row
        /\ ~(EntryAt(nz)[1] = row /\ EntryAt(nz)[2] < row)

\* the pattern holds the fill-in: a row stores every column, from its
\* diagonal on, of each row it depends on
FillClosed ==
    \A r \in Rows : \A dep \in pattern[r] : \A c \in RowCols(dep) :
        c >= r => c \in RowCols(r)

\* the statement without a condition on the fill-in: every entry of vals has
\* a single writing warp for every symmetric pattern (the pattern does not
\* change during the kernel, so the sets of positions the warps may write
\* are compared once, at the launch)
C27_SingleWriterAnyPattern ==
    /\ [][\A p \in Blocks, t \in Threads :
             /\ Eliminates(p, t) =>
                   OwnWrites(work_id(p, t),
                             ElimWrites(work_id(p, t), CurrentDep(p, t),
                                        get_lane(t)))
             /\ Finishes(p, t) =>
                   OwnWrites(work_id(p, t),
                             FinWrites(work_id(p, t), get_lane(t)))]_vars
    /\ \A r, s \in Rows : r # s => RowWrites(r) \cap RowWrites(s) = {}

\* C27: during the factorize kernel every entry of vals has a single writing
\* warp, for a symmetric pattern that holds the fill-in: an entry on or above
\* the diagonal is written only by the warp of its row, an entry below it
\* only by the warp of its column, and a row never writes its own strictly
\* lower entries, so no two warps write the same entry.
C27_SingleWriter ==
    /\ [][\A p \in Blocks, t \in Threads :
             /\ (FillClosed /\ Eliminates(p, t)) =>
                   OwnWrites(work_id(p, t),
                             ElimWrites(work_id(p, t), CurrentDep(p, t),
                                        get_lane(t)))
             /\ Finishes(p, t) =>
                   OwnWrites(work_id(p, t),
                             FinWrites(work_id(p, t), get_lane(t)))]_vars
    /\ FillClosed =>
          \A r, s \in Rows : r # s => RowWrites(r) \cap RowWrites(s) = {}

\* the last row of a pattern with fill-in has eliminated with two columns,
\* written the transposes and published
C27_Witness ==
    /\ FillClosed
    /\ \A r \in Rows : pattern[r] = 0 .. r - 1
    /\ \E p \in Blocks, t \in Threads :
          /\ Claimed(p)
          /\ bstate[p] = "run"
          /\ work_id(p, t) = NumRows - 1
          /\ dep_idx[p][t] = NumRows - 1
          /\ pc[p][t] = "done"

(***************************************************************************)
(* Repeated factorizations on one tmp_storage array                        *)
(***************************************************************************)
\* the number of factorize calls examined
MaxCalls == 2

\* the words of tmp_storage: num_rows status words, then the block counter
StorageWords ==
    [i \in 0 .. NumRows |-> IF i < NumRows THEN status[i] ELSE block_counter]

\* a constructor that leaves the array as the earlier call left it
fill_array_skip(words) == words

\* components::fill_array(exec, status, num_elements + 1, 0)
fill_array(words) == [i \in DOMAIN words |-> 0]

\* factorize() on the host, called again after the kernel of the earlier
\* call has completed: the syncfree_storage constructor refills tmp_storage
\* and the kernel is launched on a grid of fresh blocks, whose shared memory
\* holds whatever the earlier blocks left there
HostFactorize ==
    /\ calls < MaxCalls
    /\ AllFinished
    /\ calls' = calls + 1
    /\ pattern' \in Patterns
    /\ \E words \in {fill_array(StorageWords)} :
          /\ status' = [r \in Rows |-> words[r]]
          /\ block_counter' = words[NumRows]
    /\ block_offset' = [p \in Blocks |-> -1]
    /\ bstate' = [p \in Blocks |-> "pending"]
    /\ zeroed' = [p \in Blocks |-> FALSE]
    /\ pc' = [p \in Blocks |-> [t \in Threads |-> "ctor"]]
    /\ dep_idx' = [p \in Blocks |-> [t \in Threads |-> 0]]
    /\ UNCHANGED nonSchedVars
    /\ UNCHANGED <<local_status, resident_limit>>

ReuseNext == SchedNext \/ HostFactorize

ReuseSpec == Init /\ [][ReuseNext]_vars

\* the step that issues a later factorize call
LaterCall == calls' = calls + 1

\* lane 0 of a warp leaves the spin loop of wait()
Observes(p, t) == pc[p][t] = "spin" /\ pc'[p][t] = "wsync"

\* C28: a factorize call on a tmp_storage array that an earlier call left
\* with all flags at 1 and the counter at num_blocks starts with all
\* num_rows status words and the block counter equal to 0, and a wait() of
\* the later call never observes a flag that the owner of the row has not
\* published in that call.
C28_StorageReset ==
    /\ [][LaterCall =>
             /\ \A r \in Rows : status[r] = 1
             /\ block_counter = num_blocks
             /\ \A r \in Rows : status'[r] = 0
             /\ block_counter' = 0]_vars
    /\ [][\A p \in Blocks, t \in Threads :
             (calls > 1 /\ Observes(p, t)) =>
                 PublishedFor(p, CurrentDep(p, t))]_vars

\* in the second call a warp spins on a row whose flag the first call had
\* set, and another warp of the second call is already past a wait()
C28_Witness ==
    /\ calls = 2
    /\ \E p \in Blocks, t \in Threads :
          /\ pc[p][t] = "spin"
          /\ status[CurrentDep(p, t)] = 0
    /\ \E p \in Blocks, t \in Threads : pc[p][t] = "elim"

(***************************************************************************)
(* The permutation vectors invert_block returns                            *)
(***************************************************************************)
\* the steps at which a lane was the pivot, read from the returned
\* trans_perm
PivotSteps(l) == {i \in 0 .. problem_size - 1 : blk.trans_perm[i] = l}

\* C29: when invert_block returns, with true or with false, perm on the
\* lanes below the block size n is a permutation of 0 .. n-1 and trans_perm
\* is its inverse; every lane below n was the pivot of exactly one step;
\* lanes from n on are never pivots and keep the perm and trans_perm they
\* entered with.
C29_PermIsPermutation ==
    /\ [](InvReturned =>
             /\ {blk.perm[l] : l \in 0 .. problem_size - 1} =
                    0 .. problem_size - 1
             /\ \A l \in 0 .. problem_size - 1 :
                   /\ blk.trans_perm[blk.perm[l]] = l
                   /\ Cardinality(PivotSteps(l)) = 1
             /\ \A l \in Lanes : l >= problem_size => PivotSteps(l) = {})
    /\ [][\A l \in Lanes : l >= problem_size =>
             /\ blk'.perm[l] = blk.perm[l]
             /\ blk'.trans_perm[l] = blk.trans_perm[l]]_vars

\* invert_block has returned false for a singular block of two rows, in a
\* group with an idle lane, after choosing row 1 as the first pivot
C29_Witness ==
    /\ InvReturned
    /\ problem_size = 2
    /\ problem_size < max_problem_size
    /\ Singular(problem_size, blk_input)
    /\ \A l \in Lanes : ~blk.status[l]
    /\ blk.perm[0] = 1
    /\ blk.perm[1] = 0

(***************************************************************************)
(* A zero pivot inside invert_block                                        *)
(***************************************************************************)
\* a lane has reported a zero pivot
Failed == \E l \in Lanes : ~blk.status[l]

\* C30: a step whose broadcast pivot element is exactly zero changes no
\* element of any lane's row and sets status to false on every lane;
\* invert_block goes on with the remaining steps, each of which still
\* chooses and records its pivot, status never returns to true, and all
\* lanes return the same value.
C30_ZeroPivotStep ==
    /\ [][(PivotStep /\ ZeroPivotNow) =>
             /\ blk'.row = blk.row
             /\ \A l \in Lanes : ~blk'.status[l]]_vars
    /\ [][Failed =>
             /\ blk_i' = blk_i + 1
             /\ \A l \in Lanes : ~blk'.status[l]
             /\ PivotStep =>
                   /\ blk'.perm[PivotOfStep] = blk_i
                   /\ ~blk.pivoted[PivotOfStep]
                   /\ blk'.pivoted[PivotOfStep]
                   /\ ZeroPivotNow \/
                          blk'.row = apply_gauss_jordan_transform(
                                         PivotOfStep, blk_i, blk).row]_vars
    /\ [](\A l, m \in Lanes : blk.status[l] = blk.status[m])

\* invert_block has returned false after a zero pivot at its first step
\* and a later step that still transformed the rows
C30_Witness ==
    /\ InvReturned
    /\ problem_size >= 2
    /\ \A r \in 0 .. problem_size - 1 : blk_input[r][0] = 0
    /\ \A l \in Lanes : ~blk.status[l]
    /\ \E l \in 0 .. problem_size - 1 : \E c \in 0 .. problem_size - 1 :
          blk.row[l][c] # Rat(blk_input[l][c])

(***************************************************************************)
(* The registers invert_block does not own: columns and lanes from the     *)
(* block size on, which extract_transposed_diag_blocks never writes        *)
(***************************************************************************)
\* the rows in the lanes' registers when every lane holds its own garbage
\* in the registers that were never written
LoadPadded(n, M, pad) ==
    [l \in Lanes |-> [c \in Cols |->
        IF l < n /\ c < n THEN Rat(M[l][c]) ELSE Rat(pad[l])]]

\* the part of the registers a caller reads after invert_block: the block's
\* columns of the block's lanes, the permutation vectors and the status
Visible(n, st) ==
    [row |-> [l \in 0 .. n - 1 |-> [c \in 0 .. n - 1 |-> st.row[l][c]]],
     perm |-> [l \in 0 .. n - 1 |-> st.perm[l]],
     trans_perm |-> [l \in 0 .. n - 1 |-> st.trans_perm[l]],
     status |-> st.status]

\* C31: for a block smaller than max_problem_size the block's columns of
\* the block's lanes, perm, trans_perm and the returned status do not depend
\* on what columns and lanes from the block size on held at the call: every
\* other padding of the same block gives the same result.
C31_PaddingIrrelevant ==
    (InvReturned /\ problem_size < max_problem_size) =>
        \A pad \in [Lanes -> GarbageValues] :
            Visible(problem_size,
                    invert_block(problem_size,
                                 LoadPadded(problem_size, blk_input, pad),
                                 [l \in Lanes |-> l], [l \in Lanes |-> l]))
                = Visible(problem_size, blk)

\* invert_block has returned true for a block of two rows whose lanes held
\* non-zero garbage behind the block
C31_Witness ==
    /\ InvReturned
    /\ problem_size = 2
    /\ problem_size < max_problem_size
    /\ ~Singular(problem_size, blk_input)
    /\ \A l \in Lanes : blk.status[l]
    /\ blk.row[0][2] # zero

(***************************************************************************)
(* apply_gauss_jordan_transform_with_rhs: the transform that carries one   *)
(* right-hand side.  The registers get two more fields: rhs, the value     *)
(* rhs[0] of every lane, and rhs_in, the right-hand side at the call.      *)
(***************************************************************************)
\* a key lane that keeps its right-hand side unscaled
KeyRhs_unscaled(key_rhs_elem, key_col_elem) == key_rhs_elem

\* rhs[0] = key_rhs_elem * key_col_elem, executed by the key lane
KeyRhs(key_rhs_elem, key_col_elem) == RMul(key_rhs_elem, key_col_elem)

apply_gauss_jordan_transform_with_rhs(key_row, key_col, st) ==
    LET pivot == shfl([l \in Lanes |-> st.row[l][key_col]], key_row)
        key_rhs_elem == shfl(st.rhs, key_row)
        key_col_elem(l) ==
            IF l = key_row
            THEN RDiv(one, pivot)
            ELSE RDiv(RNeg(st.row[l][key_col]), pivot)
        NewRhs(l) ==
            IF l = key_row
            THEN KeyRhs(key_rhs_elem, key_col_elem(l))
            ELSE RAdd(st.rhs[l], RMul(key_rhs_elem, key_col_elem(l)))
        key_row_elem(i) == shfl([l \in Lanes |-> st.row[l][i]], key_row)
        NewRow(l) ==
            [i \in Cols |->
                IF i = key_col
                THEN key_col_elem(l)
                ELSE RAdd(IF l = key_row THEN zero ELSE st.row[l][i],
                          RMul(key_col_elem(l), key_row_elem(i)))]
    IN IF pivot = zero
       THEN [st EXCEPT !.status = [l \in Lanes |-> FALSE]]
       ELSE [st EXCEPT !.row = [l \in Lanes |-> NewRow(l)],
                       !.rhs = [l \in Lanes |-> NewRhs(l)]]

\* one iteration of the loop of invert_block with the transform that
\* carries the right-hand side
SolveIteration(i, st) ==
    LET piv == choose_pivot([l \in Lanes |-> st.row[l][i]], st.pivoted)
        marked == [st EXCEPT !.perm[piv] = i,
                             !.pivoted[piv] = PivotedMark(@),
                             !.trans_perm[i] = piv]
    IN apply_gauss_jordan_transform_with_rhs(piv, i, marked)

\* the block sizes the solve is run on
SolveSizes ==
    {n \in 1 .. max_problem_size : n <= DenseSize + 1}

\* the right-hand sides: the unit vectors and the vector of ones
RhsVectors(n) ==
    {[a \in 0 .. n - 1 |-> IF a = k THEN 1 ELSE 0] : k \in 0 .. n - 1}
        \cup {[a \in 0 .. n - 1 |-> 1]}

SolveInit ==
    /\ problem_size \in SolveSizes
    /\ blk_input \in InputBlocks(problem_size)
    /\ \E g \in (IF problem_size < max_problem_size
                 THEN GarbageValues ELSE {0}) :
       \E b \in RhsVectors(problem_size) :
          LET entry == InvertEntry(problem_size,
                                   LoadBlock(problem_size, blk_input, g),
                                   [l \in Lanes |-> l], [l \in Lanes |-> l])
          IN blk = [row |-> entry.row, perm |-> entry.perm,
                    trans_perm |-> entry.trans_perm,
                    pivoted |-> entry.pivoted, status |-> entry.status,
                    rhs |-> [l \in Lanes |->
                                IF l < problem_size THEN Rat(b[l])
                                ELSE Rat(g)],
                    rhs_in |-> b]
    /\ blk_i = 0

\* one pass through the body of the loop
SolveStep ==
    /\ blk_i >= 0
    /\ blk_i < max_problem_size
    /\ blk' = IF blk_i < problem_size THEN SolveIteration(blk_i, blk) ELSE blk
    /\ blk_i' = blk_i + 1
    /\ UNCHANGED <<problem_size, blk_input>>
    /\ UNCHANGED nonInvVars

SolveNext == SolveStep

SolveSpecInit == SolveInit /\ SchedIdle /\ SymIdle /\ SelIdle /\ JacIdle /\
    ForestIdle /\ CritIdle

SolveSpec == SolveSpecInit /\ [][SolveNext]_vars

\* the solution the lanes hold: component c is the rhs of the lane whose
\* perm is c
Solution == [c \in 0 .. problem_size - 1 |-> blk.rhs[blk.trans_perm[c]]]

\* the explicitly formed inverse: invert_block on the same block, written
\* out by copy_matrix with perm and trans_perm
ExplicitInverse ==
    LET st == invert_block(problem_size,
                           LoadBlock(problem_size, blk_input, 0),
                           [l \in Lanes |-> l], [l \in Lanes |-> l])
    IN copy_matrix_and_transpose(problem_size, st.row, st.perm,
                                 st.trans_perm)

\* C32: a step of the transform with a right-hand side changes row and
\* status exactly as the transform without one and leaves rhs unchanged on
\* a zero pivot; after the steps on a non-singular block lane l holds
\* component perm[l] of the solution x of A x = rhs, which is the product of
\* the explicitly formed inverse with rhs.
C32_RhsCarried ==
    /\ [][PivotStep =>
             /\ blk'.row = InvertIteration(blk_i, blk).row
             /\ blk'.status = InvertIteration(blk_i, blk).status
             /\ ZeroPivotNow => blk'.rhs = blk.rhs]_vars
    /\ [](InvReturned /\ ~Singular(problem_size, blk_input) =>
             \E x \in {Solution} : \E inverse \in {ExplicitInverse} :
                /\ \A l \in 0 .. problem_size - 1 :
                      blk.rhs[l] = x[blk.perm[l]]
                /\ \A a \in 0 .. problem_size - 1 :
                      /\ RSum([c \in 0 .. problem_size - 1 |->
                                  RMul(Rat(blk_input[a][c]), x[c])],
                              0 .. problem_size - 1) = Rat(blk.rhs_in[a])
                      /\ RSum([c \in 0 .. problem_size - 1 |->
                                  RMul(inverse[a][c], Rat(blk.rhs_in[c]))],
                              0 .. problem_size - 1) = x[a])

\* the solve has returned for a non-singular block of the largest size whose
\* rows were exchanged, with a right-hand side of ones and a solution that
\* is not the right-hand side
C32_Witness ==
    /\ InvReturned
    /\ problem_size = max_problem_size
    /\ ~Singular(problem_size, blk_input)
    /\ blk.perm # [l \in Lanes |-> l]
    /\ \A a \in 0 .. problem_size - 1 : blk.rhs_in[a] = 1
    /\ \E a \in 0 .. problem_size - 1 : Solution[a] # one

(***************************************************************************)
(* validate_precision_reduction_feasibility as a probe                     *)
(***************************************************************************)
\* subwarp s executes adaptive_generate up to its descriptor
Computes(s) == jac_reg[s].pc = "compute" /\ jac_reg'[s].pc = "reduce"

\* the registers of subwarp s after its call of invert_block
Inverted(s) ==
    invert_block(JacBlockSize(s), jac_reg[s].row, jac_reg[s].perm,
                 jac_reg[s].trans_perm)

\* the block of bsize rows and columns held in the rows of a subwarp
BlockPart(bsize, row) ==
    [l \in 0 .. bsize - 1 |-> [i \in 0 .. bsize - 1 |-> row[l][i]]]

\* the inversion of the block after the round trip through the reduced
\* precision fails
RoundTripFails(bsize, row) ==
    ~invert_block(bsize, ReducedRows(bsize, row, HalfBits),
                  [l \in Lanes |-> l], [l \in Lanes |-> l]).status[0]

\* C33: validate_precision_reduction_feasibility is a probe: whether it
\* returns true or false, the first block_size elements of the row of every
\* lane below block_size hold on return what they held at the call and the
\* caller's perm and trans_perm are unchanged; it returns false whenever the
\* inversion of the round-tripped block fails.
C33_ProbeRestores ==
    [][\A s \in Subwarps :
          (Computes(s) /\ HasBlock(s) /\
           jac_block_precisions[s] = autodetect) =>
              \E bsize \in {JacBlockSize(s)} : \E inv \in {Inverted(s)} :
              \E v \in {validate_precision_reduction_feasibility(
                            bsize, inv.row, HalfBits)} :
                 /\ BlockPart(bsize, v.row) = BlockPart(bsize, inv.row)
                 /\ RoundTripFails(bsize, inv.row) => ~v.feasible
                 /\ BlockPart(bsize, jac_reg'[s].row) =
                        BlockPart(bsize, inv.row)
                 /\ jac_reg'[s].perm = inv.perm
                 /\ jac_reg'[s].trans_perm = inv.trans_perm
                 /\ (RoundTripFails(bsize, inv.row) /\
                     jac_block_data'[s] # jac_block_data[s]) =>
                        jac_reg'[s].prec_descriptor = {}]_vars

\* a subwarp has probed a block of two rows whose round-tripped inversion
\* fails and another has probed one for which the probe succeeded
C33_Witness ==
    /\ \A s \in Subwarps : jac_reg[s].pc = "reduce"
    /\ jac_in.num_blocks = JacSubwarps
    /\ \A s \in Subwarps : jac_in.block_precisions[s] = autodetect
    /\ \A s \in Subwarps : jac_block_data[s] # Unwritten
    /\ BlockSize(jac_in.blocks[0]) = 2
    /\ jac_reg[0].prec_descriptor = {}
    /\ RoundTripFails(2, jac_reg[0].row)
    /\ \E s \in Subwarps : "p1n0" \in jac_reg[s].prec_descriptor

(***************************************************************************)
(* Blocks whose precision the caller requests                              *)
(***************************************************************************)
\* the precision the caller passed in for the block of subwarp s
Requested(s) == jac_in.block_precisions[s]

\* the block of subwarp s has been stored and its precision was requested
StoredOnRequest(s) ==
    JacDone(s) /\ HasBlock(s) /\ Requested(s) # autodetect

\* the block of subwarp s is stored in the precision prec
StoredWith(s, prec) ==
    /\ jac_block_precisions[s] = prec
    /\ \A a \in DOMAIN jac_block_data[s] : jac_block_data[s][a].prec = prec

\* the statement as it stands: a block whose precision is requested is
\* stored with exactly that precision whatever the other blocks of the warp
\* request or detect
C34_RequestKept ==
    \A s \in Subwarps : StoredOnRequest(s) => StoredWith(s, Requested(s))

\* every other block of the warp contributes a descriptor that allows the
\* precision requested for the block of subwarp s
PeersAllow(s) ==
    \A t \in Subwarps :
        (HasBlock(t) /\ t # s) =>
            singleton(Requested(s)) \subseteq jac_reg[t].prec_descriptor

\* C34: a block whose requested precision is not autodetect is stored with
\* exactly the requested precision, and block_precisions keeps that value,
\* when the descriptors of the other blocks handled by the same warp allow
\* that precision; when one of them does not, the block is stored in full
\* precision like every block of the warp.
C34_RequestKeptIfPeersAllow ==
    \A s \in Subwarps :
        StoredOnRequest(s) =>
            IF PeersAllow(s)
            THEN StoredWith(s, Requested(s))
            ELSE StoredWith(s, "p0n0")

\* a block requested in reduced precision has been stored in full precision
\* next to a block requested in full precision
C34_Witness ==
    /\ \A s \in Subwarps : JacDone(s)
    /\ HasBlock(0) /\ HasBlock(1)
    /\ Requested(0) = "p1n0"
    /\ Requested(1) = "p0n0"
    /\ ~PeersAllow(0)
    /\ StoredWith(0, "p0n0")

(***************************************************************************)
(* The layout of the search tree                                           *)
(***************************************************************************)
\* the inner nodes below node k in in-order, the children of a node k being
\* 2k + 1 and 2k + 2
RECURSIVE InOrder(_)
InOrder(k) ==
    IF k >= searchtree_inner_size THEN <<>>
    ELSE InOrder(2 * k + 1) \o <<k>> \o InOrder(2 * k + 2)

\* build_searchtree has written the tree of the level
TreeBuilt == sel_phase \notin {"idle", "tree"} /\ sel_tree[0] # -1

\* the step of the kernel build_searchtree
BuildsTree == sel_phase = "tree" /\ sel_phase' = "count"

\* C35: the threads 1 .. W-1 of build_searchtree write pairwise different
\* inner nodes and every inner node 0 .. W-2 is written; the tree, with the
\* children of node k at 2k+1 and 2k+2, is a binary search tree of the
\* sorted splitters: its in-order traversal lists the splitters 1 .. W-1 in
\* ascending order; leaf i holds splitter i.
C35_TreeLayout ==
    [][BuildsTree =>
          \E sorted \in {SortedSamples(sel_values)} :
          \E order \in {InOrder(0)} :
             /\ \A p \in 0 .. searchtree_inner_size - 1 :
                   Cardinality({idx \in 1 .. searchtree_width - 1 :
                                   InnerPos(idx) = p}) = 1
             /\ Len(order) = searchtree_width - 1
             /\ \A j \in 1 .. searchtree_width - 1 :
                   /\ order[j] = InnerPos(j)
                   /\ sel_tree'[order[j]] = sorted[j * Oversampling]
                   /\ j > 1 => sel_tree'[order[j - 1]] <= sel_tree'[order[j]]
             /\ \A i \in 0 .. searchtree_width - 1 :
                   sel_tree'[searchtree_inner_size + i] =
                       sorted[i * Oversampling]]_vars

\* a tree built from an array whose splitters are pairwise different
C35_Witness ==
    /\ TreeBuilt
    /\ \A i, j \in 0 .. searchtree_width - 1 :
          i < j => Splitter(sel_values, i) < Splitter(sel_values, j)
    /\ sel_tree[0] < sel_tree[2]

(***************************************************************************)
(* block_prefix_sum on its own: the kernel applied to counters drawn from  *)
(* a bounded set, for grids of more blocks than a warp has lanes           *)
(***************************************************************************)
\* largest grid of count_buckets whose counters are scanned: a full warp
\* step and a partial one
MaxPrefixBlocks == warp_size + 2

\* the counters count_buckets leaves for a grid of nb full blocks whose
\* elements fall into bucket b (c[k] of them in block k) and into the
\* next bucket (the others)
PrefixCounters(nb, b, c) ==
    [k \in 0 .. searchtree_width * nb - 1 |->
        IF k \div nb = b THEN c[k % nb]
        ELSE IF k \div nb = (b + 1) % searchtree_width
             THEN default_block_size * ItemsPerThread - c[k % nb]
             ELSE 0]

PrefixInit ==
    \E nb \in 1 .. MaxPrefixBlocks : \E b \in SelBuckets :
    \E c \in [0 .. nb - 1 -> 0 .. 1] :
        LET size == nb * default_block_size * ItemsPerThread
            counters == PrefixCounters(nb, b, c)
        IN /\ sel_values = [i \in 0 .. size - 1 |-> 0]
           /\ sel_rank = 0
           /\ sel_call = [values |-> sel_values, rank |-> sel_rank]
           /\ sel_tree = [p \in 0 .. searchtree_size - 1 |-> -1]
           /\ sel_oracles =
                 [i \in 0 .. size - 1 |->
                     IF i % (default_block_size * ItemsPerThread)
                            < c[BlockOf(i)]
                     THEN b ELSE (b + 1) % searchtree_width]
           /\ sel_partial = counters
           /\ sel_totals = [k \in 0 .. searchtree_width |-> -1]
           /\ sel_sh_counter =
                 [bk \in 0 .. nb - 1 |->
                     [k \in SelBuckets |-> counters[bk + nb * k]]]
           /\ sel_counted = 0 .. nb - 1
           /\ sel_counter = [bk \in 0 .. nb - 1 |-> -1]
           /\ sel_filtered = {}
           /\ sel_out = [i \in 0 .. size - 1 |-> -1]
           /\ sel_phase = "count"
           /\ sel_recursed = FALSE
           /\ sel_threshold = -1

PrefixNext == BlockPrefixSum

PrefixSpecInit == PrefixInit /\ SchedIdle /\ InvIdle /\ SymIdle /\ JacIdle /\
    ForestIdle /\ CritIdle

PrefixSpec == PrefixSpecInit /\ [][PrefixNext]_vars

\* the step of kernel block_prefix_sum
ScansCounters == sel_phase = "count" /\ sel_phase' = "totals"

\* the counters of a bucket: entries bucket * num_blocks + k, k below bound
BucketEntries(bucket, bound) ==
    {bucket * SelGrid(SelSize) + j : j \in 0 .. bound - 1}

BaseValues == -(inf - 1) .. inf - 1

BaseInit ==
    /\ sel_values \in UNION {[0 .. n - 1 -> BaseValues] : n \in 1 .. basecase_size}
    /\ sel_rank \in 0 .. Size(sel_values) - 1
    /\ sel_call = [values |-> sel_values, rank |-> sel_rank]
    /\ sel_tree = [p \in 0 .. searchtree_size - 1 |-> -1]
    /\ sel_oracles = [i \in DOMAIN sel_values |-> -1]
    /\ sel_partial =
          [k \in 0 .. searchtree_width * SelGrid(Size(sel_values)) - 1 |-> -1]
    /\ sel_totals = [k \in 0 .. searchtree_width |-> -1]
    /\ sel_sh_counter = [b \in 0 .. SelGrid(Size(sel_values)) - 1 |-> <<>>]
    /\ sel_counted = {}
    /\ sel_counter = [b \in 0 .. SelGrid(Size(sel_values)) - 1 |-> -1]
    /\ sel_filtered = {}
    /\ sel_out = [i \in DOMAIN sel_values |-> -1]
    /\ sel_phase = "base"
    /\ sel_recursed = FALSE
    /\ sel_threshold = -1

BaseNext == SelBasecase

BaseSpecInit == BaseInit /\ SchedIdle /\ InvIdle /\ SymIdle /\ JacIdle /\
    ForestIdle /\ CritIdle

BaseSpec == BaseSpecInit /\ [][BaseNext]_vars

\* the step of kernel basecase_select
SelectsInBase == sel_phase = "base" /\ sel_phase' = "done"

\* the rank-th smallest value of an array, by counting
KthValue(a, r) ==
    CHOOSE v \in {a[i] : i \in DOMAIN a} :
        /\ Cardinality({i \in DOMAIN a : a[i] < v}) <= r
        /\ r < Cardinality({i \in DOMAIN a : a[i] <= v})

====
